---- MODULE Spec2Model ----
(***************************************************************************)
(* Model of the session multiplexer of shim-mcp                            *)
(* (src/src/session/SessionMultiplexerImpl.ts), of its process supervisor  *)
(* (src/src/process/MCPProcessManager.ts), of its stdio transport adapter  *)
(* (src/unnamed/part_000) and of the gateway that assembles them           *)
(* (src/src/core/ShimMCPServer.ts).                                        *)
(*                                                                         *)
(* Every handler runs to its first await as one atomic step (Node's        *)
(* single-threaded event loop).  The transport adapter is the environment: *)
(* an envelope handed to sendToBackend is in flight until the promise      *)
(* settles, with success or with failure; timers fire at any moment while  *)
(* they are armed.  Session ids are fresh: generateSessionId joins the     *)
(* clock and nine random base-36 digits.                                   *)
(*                                                                         *)
(* The specifications of the multiplexer share its actions and differ in   *)
(* their inputs:                                                           *)
(*   Spec        several session ids, little traffic;                      *)
(*   SpecFlow    one session id, more traffic;                             *)
(*   SpecFifo    one session id, messages without ids, most traffic;       *)
(*   SpecInbound envelopes of the adapter through handleInboundMessage;    *)
(*   SpecSweep   the clock and the periodic idle sweep, with fairness;     *)
(*   SpecDrain   one session, failing sends and backend responses, with    *)
(*               fairness;                                                 *)
(*   SpecCredit  one session and request timeouts, with fairness.          *)
(*                                                                         *)
(* The supervisor counts time in seconds.  A child exits at any moment;    *)
(* an async function is one step up to each await; timers carry their     *)
(* deadline and the clock waits for a timer that is due.  Its             *)
(* specifications:                                                         *)
(*   SpecSup     one supervisor: start, stop (forced or graceful), exits;  *)
(*   SpecRestart one supervisor, forced stops, with fairness;              *)
(*   SpecLock    two supervisors in two OS processes on one lock path;     *)
(*   SpecHealth  one supervisor with a health URL: readiness polling, the  *)
(*               health-check interval and restart();                      *)
(*   SpecIdle    one supervisor with an idle timeout, with fairness.       *)
(* The first three configure no health URL.                                *)
(*                                                                         *)
(* The adapter reads characters from a pipe in chunks of any size and      *)
(* sends envelopes to a backend over HTTP or a socket.  Its                *)
(* specifications:                                                         *)
(*   SpecStdio    stdin framing and parsing;                               *)
(*   SpecSend     start, sendToBackend, responses, response timers, stop;  *)
(*   SpecShutdown start, stop and stdin.                                   *)
(*                                                                         *)
(* The gateway holds its own component objects:                            *)
(*   SpecServer   start, stop and lines arriving on stdin.                 *)
(***************************************************************************)
EXTENDS Integers, Sequences, FiniteSets, TLC

(* ------------------------------ bounds -------------------------------- *)
MaxSessionIds == 2          \* session ids ever generated
MaxMessages == 1            \* messages clients submit with routeToBackend under Spec
MaxToClient == 1            \* messages the backend returns through routeToClient under Spec
MaxFailures == 1            \* sendToBackend promises that are rejected
MaxMsgId == 1               \* caller-chosen correlation ids are 1..MaxMsgId
MaxFlowMessages == 2        \* the same two under SpecFlow
MaxFlowToClient == 1
MaxFifoMessages == 4        \* the same two under SpecFifo
MaxFifoToClient == 3
MaxSweepMessages == 1       \* the same two under SpecSweep
MaxServerStarts == 2        \* start() calls made on the gateway
MaxStdinLines == 1          \* message lines the client writes to the gateway's stdin
MaxDrainMessages == 2       \* messages clients submit under SpecDrain and SpecCredit
MaxSweepToClient == 1
LastInputTime == 1          \* clients act while now <= LastInputTime
MaxStarts == 1              \* start() calls under SpecSup
MaxClock == 6               \* the clock stops here under SpecSup and SpecRestart (seconds)
MaxPendingStops == 1        \* graceful stop() calls of a supervisor that wait at a time
MaxHealthStarts == 1        \* the same two under SpecHealth
MaxHealthClock == 10
LastStartTime == 0          \* start() is called while now <= LastStartTime (SpecHealth, SpecIdle)
MaxIdleStarts == 1          \* the same two under SpecIdle
MaxIdleClock == 10
LastActivityTime == 3       \* updateActivity() is called while now <= LastActivityTime
ShortIdleTimeout == 3       \* config.idleTimeout under SpecIdle, in seconds
MaxLines == 2               \* complete lines a client writes to stdin
MaxSends == 2               \* envelopes given to sendToBackend
MaxSendClock == 5           \* the sends are followed up to this time, in seconds
ShortResponseTimeout == 2   \* config.timeout of the adapter, in seconds
MaxLockStarts == 2          \* the same two under SpecLock
MaxLockClock == 2
MaxInboundMessages == 1     \* messages clients submit under SpecInbound
MaxInbound == 2             \* envelopes the adapter emits as 'message.inbound'

(* --------------------------- configuration ---------------------------- *)
MaxConcurrentSessions == 1  \* config.maxConcurrentSessions
FlowControlWindowSize == 1  \* config.flowControlWindowSize
EnableFlowControl == TRUE   \* config.enableFlowControl
SessionIdleTimeout == 1     \* config.sessionIdleTimeout, in ticks of the clock

MaxRestartAttempts == 2     \* config.maxRestartAttempts
StabilizationDelay == 2     \* waitForProcessReady: Utils.sleep(2000), in seconds
GracePeriod == 5            \* stop: the SIGKILL timer of 5000 ms, in seconds
MaxWaitTime == 10           \* waitForProcessReady: maxWaitTime of 10000 ms, in seconds
HealthCheckInterval == 5    \* config.healthCheckInterval (DEFAULT_HEALTH_CHECK_INTERVAL), in seconds
RestartPause == 1           \* restart: Utils.sleep(1000), in seconds
IdleTimeout == 600          \* config.idleTimeout (DEFAULT_SESSION_IDLE_TIMEOUT), in seconds

NoId == 0                   \* message.id === undefined
NoSession == 0              \* messageRoutes.get(id) === undefined
NoTimer == 0                \* pendingRequests.get(id) === undefined

NoChild == 0                \* this.process === undefined
NoLock == 0                 \* the lock file does not exist
NoDeadline == 0             \* this.idleTimer === undefined
NoInterval == 0             \* this.healthCheckInterval === undefined
Never == 0 - 1              \* answeredAt of a request that has no response
Undefined == [undefined |-> TRUE]  \* a reference that holds no object

SessionIds == 1..MaxSessionIds
Supervisors == {1, 2}       \* two supervisor instances (OS processes) share the lock path
RestartPolicies == {"never", "on-failure"}

(* Configurations with no health URL and the default idle timeout. *)
PlainConfigs(policies) ==
    [restartPolicy : policies, healthCheckUrl : {FALSE}, idleTimeout : {IdleTimeout}]
MsgIds == 1..MaxMsgId

VARIABLES
    sessions,        \* keys of this.sessions: the live session ids
    heap,            \* the ActiveSession objects, live or still captured by closures
    messageRoutes,   \* this.messageRoutes: message id -> session id
    transportAdapter,\* TRUE once setTransportAdapter was called
    timers,          \* armed setTimeout handles <<sessionId, messageId, sequence>>
    inflight,        \* sendToBackend promises that have not settled
    wire,            \* per session, the envelopes handed to sendToBackend, in order
    failed,          \* <<sessionId, sequence>> of the sends that were rejected
    sentToClient,    \* the number of messages handed to sendToClient
    destroyed,       \* per session, the number of SESSION_DESTROYED events emitted
    errorEvents,     \* the 'error' events emitted: <<kind, sessionId, messageId>>
    lastError,       \* the error thrown last to the caller of an operation
    nextSessionId,   \* the next id Utils.generateSessionId returns
    nextMessage,     \* number of messages submitted so far (labels the payloads)
    queued,          \* labels of the messages routeToBackend put on a queue
    now,             \* Date.now()
    unroutable       \* the number of 'Unable to route inbound message' errors emitted

(* The process supervisor (src/src/process/MCPProcessManager.ts): one      *)
(* instance per OS process, all sharing the lock file.                    *)
VARIABLES
    supAlive,        \* per supervisor: its OS process is alive
    config,          \* this.config: [restartPolicy, healthCheckUrl, idleTimeout]
    status,          \* this.status.status
    isHealthy,       \* this.status.isHealthy
    restartCount,    \* this.status.restartCount
    process,         \* this.process: the child the supervisor holds, or NoChild
    idleTimer,       \* this.idleTimer: its deadline, or NoDeadline
    healthCheckInterval, \* this.healthCheckInterval: the interval held, or NoInterval
    lastActivity,    \* this.lastActivity
    children,        \* the live child processes: [id, owner, spawnedAt, killed]
    lockFile,        \* the pid recorded in the lock file, or NoLock
    supTimers,       \* armed timers of the supervisors' async functions
    startCheck,      \* start() between isAnotherInstanceRunning and what follows
    startResult,     \* how the last start() call settled
    startedEvents,   \* per supervisor, the number of BACKEND_STARTED events
    crashEvents,     \* per supervisor, the number of BACKEND_CRASHED events
    stoppedEvents,   \* per supervisor, the number of BACKEND_STOPPED events
    nextChild,       \* the next child id
    starts           \* the number of start() calls made

(* The transport adapter (StdioTransportAdapter) with an HTTP backend,    *)
(* and the pipe its stdin reads from.                                     *)
VARIABLES
    pipe,            \* the characters the client wrote that stdin has not delivered
    received,        \* the characters stdin delivered in 'data' events, in order
    messageBuffer,   \* this.messageBuffer
    outboundSequence, \* this.outboundSequence
    adapterEvents,   \* the events the adapter emitted, in order
    isStarted,       \* this.isStarted
    backendConnected, \* this.backendConnected
    pendingRequests, \* this.pendingRequests: [sequence, deadline] of the timer held
    backendType,     \* this.config.backendType
    requests,        \* history: the sendToBackend calls, their response and outcome
    posts,           \* the sequences of the sendToBackend calls awaiting their POST
    stopped          \* history: stop() has returned since the last start()

muxState == <<sessions, heap, messageRoutes, transportAdapter, timers, inflight, wire,
              failed, sentToClient, destroyed, errorEvents, lastError, nextSessionId,
              nextMessage, queued, unroutable>>

supVars == <<supAlive, config, status, isHealthy, restartCount, process, idleTimer,
             healthCheckInterval, lastActivity,
             children, lockFile, supTimers, startCheck, startResult, startedEvents,
             crashEvents, stoppedEvents, nextChild, starts>>

adVars == <<pipe, received, messageBuffer, outboundSequence, adapterEvents, isStarted,
            backendConnected, pendingRequests, backendType, requests, posts, stopped>>

(* The gateway (src/src/core/ShimMCPServer.ts): the components it holds    *)
(* are the ones its own start() constructed.                              *)
VARIABLES
    serverIsStarted,          \* this.isStarted
    serverConfig,             \* this.config
    serverPc,                 \* the await at which start() or stop() stands
    serverCaller,             \* "start" or "stop": who awaits cleanup()
    serverError,              \* the error caught by start()
    serverResult,             \* how the last start() or stop() call settled
    serverStarts,             \* the number of start() calls
    serverProcessManager,     \* this.processManager
    serverSessionMultiplexer, \* this.sessionMultiplexer
    serverTransportAdapter,   \* this.transportAdapter
    serverNextId,             \* the next id Utils.generateSessionId returns
    serverEvents,             \* the session events the gateway emitted, in order
    stdinListeners,           \* session ids of the adapters listening on process.stdin
    outboundListeners,        \* per adapter: the multiplexer listening for its envelopes
    stdinEnvelopes            \* what became of each envelope an adapter emitted

serverVars == <<serverIsStarted, serverConfig, serverPc, serverCaller, serverError,
                serverResult, serverStarts, serverProcessManager,
                serverSessionMultiplexer, serverTransportAdapter, serverNextId,
                serverEvents, stdinListeners, outboundListeners, stdinEnvelopes>>

vars == <<muxState, now, supVars, adVars, serverVars>>

(* An ActiveSession as createSession builds it. *)
NewSession(t) ==
    [ lastActivity |-> t,
      pendingRequests |-> [i \in MsgIds |-> NoTimer],
      messageQueue |-> <<>>,
      lastSequence |-> 0,
      flowControlWindow |-> FlowControlWindowSize,
      backpressure |-> FALSE ]

(* The part of the state the routing code mutates, passed through the     *)
(* helpers below as one record.                                            *)
Cur ==
    [ heap |-> heap, messageRoutes |-> messageRoutes, timers |-> timers,
      inflight |-> inflight, wire |-> wire, errorEvents |-> errorEvents ]

Init ==
    /\ sessions = {}
    /\ heap = [s \in SessionIds |-> NewSession(0)]
    /\ messageRoutes = [i \in MsgIds |-> NoSession]
    /\ transportAdapter = FALSE
    /\ timers = {}
    /\ inflight = {}
    /\ wire = [s \in SessionIds |-> <<>>]
    /\ failed = {}
    /\ sentToClient = 0
    /\ destroyed = [s \in SessionIds |-> 0]
    /\ errorEvents = {}
    /\ lastError = "none"
    /\ nextSessionId = 1
    /\ nextMessage = 0
    /\ queued = {}
    /\ now = 0
    /\ unroutable = 0
    /\ supAlive = [p \in Supervisors |-> TRUE]
    /\ config = [p \in Supervisors |->
                   [restartPolicy |-> "on-failure", healthCheckUrl |-> FALSE,
                    idleTimeout |-> IdleTimeout]]
    /\ status = [p \in Supervisors |-> "stopped"]
    /\ isHealthy = [p \in Supervisors |-> FALSE]
    /\ restartCount = [p \in Supervisors |-> 0]
    /\ process = [p \in Supervisors |-> NoChild]
    /\ idleTimer = [p \in Supervisors |-> NoDeadline]
    /\ healthCheckInterval = [p \in Supervisors |-> NoInterval]
    /\ lastActivity = [p \in Supervisors |-> 0]
    /\ children = {}
    /\ lockFile = NoLock
    /\ supTimers = {}
    /\ startCheck = [p \in Supervisors |-> "none"]
    /\ startResult = [p \in Supervisors |-> "none"]
    /\ startedEvents = [p \in Supervisors |-> 0]
    /\ crashEvents = [p \in Supervisors |-> 0]
    /\ stoppedEvents = [p \in Supervisors |-> 0]
    /\ nextChild = 1
    /\ starts = 0
    /\ pipe = <<>>
    /\ received = <<>>
    /\ messageBuffer = <<>>
    /\ outboundSequence = 0
    /\ adapterEvents = <<>>
    /\ isStarted = FALSE
    /\ backendConnected = FALSE
    /\ pendingRequests = {}
    /\ backendType = "http"
    /\ requests = {}
    /\ posts = {}
    /\ stopped = FALSE
    /\ serverIsStarted = FALSE
    /\ serverConfig = Undefined
    /\ serverPc = "idle"
    /\ serverCaller = "none"
    /\ serverError = "none"
    /\ serverResult = [start |-> "none", stop |-> "none"]
    /\ serverStarts = 0
    /\ serverProcessManager = Undefined
    /\ serverSessionMultiplexer = Undefined
    /\ serverTransportAdapter = Undefined
    /\ serverNextId = 1
    /\ serverEvents = <<>>
    /\ stdinListeners = {}
    /\ outboundListeners = <<>>
    /\ stdinEnvelopes = <<>>

(* ------------------------------ helpers ------------------------------- *)

(* The cap test off by one: one session too many is admitted. *)
CapacityReached_OffByOne(n) == n > MaxConcurrentSessions

(* createSession line 67: the cap test. *)
CapacityReached(n) == n >= MaxConcurrentSessions

(* Backpressure set only once the window is below zero. *)
BackpressureAfterSend_Late(w, bp) == IF w < 0 THEN TRUE ELSE bp

(* routeToBackend lines 166-168: backpressure after a credit was taken. *)
BackpressureAfterSend(w, bp) == IF w <= 0 THEN TRUE ELSE bp

(* A catch block that forgets the credit. *)
RestoreCredit_Forgotten(w) == w

(* routeToBackend lines 184-185: the catch block gives the credit back. *)
RestoreCredit(w) == w + 1

(* The message is dropped instead of queued. *)
Enqueue_Dropped(q, m) == q

(* routeToBackend line 151: messageQueue.push(message). *)
Enqueue(q, m) == Append(q, m)

(* updateSessionActivity *)
UpdateSessionActivity(st, s) ==
    IF s \in sessions THEN [st EXCEPT !.heap[s].lastActivity = now] ELSE st

(* setupRequestTimeout: arm a timer and store its handle under the id,   *)
(* replacing whatever handle was stored there.                            *)
SetupRequestTimeout(st, s, id, seq) ==
    IF s \notin sessions THEN st
    ELSE [st EXCEPT !.timers = @ \cup {<<s, id, seq>>},
                    !.heap[s].pendingRequests[id] = seq]

(* clearRequestTimeout: cancel the timer stored under the id, if any. *)
ClearRequestTimeout(st, s, id) ==
    IF s \notin sessions THEN st
    ELSE LET p == st.heap[s].pendingRequests[id] IN
         IF p = NoTimer THEN st
         ELSE [st EXCEPT !.timers = @ \ {<<s, id, p>>},
                         !.heap[s].pendingRequests[id] = NoTimer]

(* routeToBackend for a live session with a transport, up to the await   *)
(* of sendToBackend.  flush/rest describe the caller: a call made by      *)
(* processQueuedMessages carries the messages that loop still holds.      *)
RouteToBackendSync(st, s, m, flush, rest) ==
    LET st1 == UpdateSessionActivity(st, s) IN
    IF EnableFlowControl /\ st1.heap[s].backpressure
    THEN [st1 EXCEPT !.heap[s].messageQueue = Enqueue(@, m)]
    ELSE
      LET seq == st1.heap[s].lastSequence + 1
          st2 == IF m.id # NoId
                 THEN SetupRequestTimeout(
                        [st1 EXCEPT !.messageRoutes[m.id] = s], s, m.id, seq)
                 ELSE st1
          w   == st2.heap[s].flowControlWindow - 1
          st3 == IF EnableFlowControl
                 THEN [st2 EXCEPT !.heap[s].flowControlWindow = w,
                                  !.heap[s].backpressure = BackpressureAfterSend(w, @)]
                 ELSE st2
      IN [st3 EXCEPT !.heap[s].lastSequence = seq,
                     !.wire[s] = Append(@, [sequence |-> seq, payload |-> m]),
                     !.inflight = @ \cup {[sessionId |-> s, sequence |-> seq, id |-> m.id,
                                           flush |-> flush, rest |-> rest]}]

(* The flush hands the next message to the transport without looking the  *)
(* session up again.                                                      *)
FlushLoop_Unchecked(st, s, rest) ==
    IF rest = <<>> THEN st
    ELSE IF st.heap[s].backpressure
    THEN [st EXCEPT !.heap[s].messageQueue = rest \o @]
    ELSE RouteToBackendSync(st, s, Head(rest), TRUE, Tail(rest))

(* The loop of processQueuedMessages from the message at the head of     *)
(* rest: it runs until it awaits a send, re-queues, or runs out.  A call  *)
(* for a session that is no longer in the table is rejected and reported, *)
(* and the loop goes on to the next message.                              *)
RECURSIVE FlushLoop(_, _, _)
FlushLoop(st, s, rest) ==
    IF rest = <<>> THEN st
    ELSE IF st.heap[s].backpressure
    THEN [st EXCEPT !.heap[s].messageQueue = rest \o @]
    ELSE IF s \notin sessions
    THEN FlushLoop([st EXCEPT !.errorEvents =
                        @ \cup {<<"QueuedSessionNotFound", s, Head(rest).id>>}],
                   s, Tail(rest))
    ELSE RouteToBackendSync(st, s, Head(rest), TRUE, Tail(rest))

(* processQueuedMessages up to its first await. *)
ProcessQueuedMessages(st, s) ==
    IF s \notin sessions \/ st.heap[s].messageQueue = <<>> THEN st
    ELSE FlushLoop([st EXCEPT !.heap[s].messageQueue = <<>>], s,
                   st.heap[s].messageQueue)

(* routeToClient for a live session with a transport, up to the await of  *)
(* sendToClient.                                                          *)
RouteToClientSync(st, s, id) ==
    LET st1 == UpdateSessionActivity(st, s)
        st2 == IF id # NoId
               THEN [ClearRequestTimeout(st1, s, id)
                       EXCEPT !.messageRoutes[id] = NoSession]
               ELSE st1
        w   == st2.heap[s].flowControlWindow + 1
        st3 == [st2 EXCEPT !.heap[s].flowControlWindow = w]
        st4 == IF st3.heap[s].backpressure /\ w > 0
               THEN ProcessQueuedMessages(
                      [st3 EXCEPT !.heap[s].backpressure = FALSE], s)
               ELSE st3
    IN IF EnableFlowControl THEN st4 ELSE st2

(* Write a record of the mutated part back to the variables. *)
Commit(st) ==
    /\ heap' = st.heap
    /\ messageRoutes' = st.messageRoutes
    /\ timers' = st.timers
    /\ inflight' = st.inflight
    /\ wire' = st.wire
    /\ errorEvents' = st.errorEvents

(* ------------------------------ actions ------------------------------- *)

SetTransportAdapter ==
    /\ ~transportAdapter
    /\ transportAdapter' = TRUE
    /\ UNCHANGED <<sessions, heap, messageRoutes, timers, inflight, wire, failed,
                   sentToClient, destroyed, errorEvents, lastError, nextSessionId,
                   nextMessage, queued, now, unroutable, supVars, adVars, serverVars>>

CreateSession(maxIds) ==
    /\ IF CapacityReached(Cardinality(sessions))
       THEN /\ lastError' = "MaxSessionsExceeded"
            /\ UNCHANGED <<sessions, heap, nextSessionId>>
       ELSE /\ nextSessionId <= maxIds
            /\ sessions' = sessions \cup {nextSessionId}
            /\ heap' = [heap EXCEPT ![nextSessionId] = NewSession(now)]
            /\ nextSessionId' = nextSessionId + 1
            /\ UNCHANGED lastError
    /\ UNCHANGED <<messageRoutes, transportAdapter, timers, inflight, wire, failed,
                   sentToClient, destroyed, errorEvents, nextMessage, queued, now,
                   unroutable, supVars, adVars, serverVars>>

(* destroySession without the early return: the destroyed event is        *)
(* emitted for an id that is not in the table too.                        *)
DestroySession_AlwaysEmits(s) ==
    /\ timers' = timers \ {<<s, i, heap[s].pendingRequests[i]>> : i \in MsgIds}
    /\ messageRoutes' = [i \in MsgIds |->
                           IF messageRoutes[i] = s THEN NoSession
                           ELSE messageRoutes[i]]
    /\ sessions' = sessions \ {s}
    /\ destroyed' = [destroyed EXCEPT ![s] = @ + 1]
    /\ UNCHANGED <<heap, transportAdapter, inflight, wire, failed, sentToClient,
                   errorEvents, lastError, nextSessionId, nextMessage, queued, now,
                   unroutable, supVars, adVars, serverVars>>

DestroySession(s) ==
    /\ IF s \notin sessions
       THEN UNCHANGED <<sessions, timers, messageRoutes, destroyed>>
       ELSE /\ timers' = timers \ {<<s, i, heap[s].pendingRequests[i]>> : i \in MsgIds}
            /\ messageRoutes' = [i \in MsgIds |->
                                   IF messageRoutes[i] = s THEN NoSession
                                   ELSE messageRoutes[i]]
            /\ sessions' = sessions \ {s}
            /\ destroyed' = [destroyed EXCEPT ![s] = @ + 1]
    /\ UNCHANGED <<heap, transportAdapter, inflight, wire, failed, sentToClient,
                   errorEvents, lastError, nextSessionId, nextMessage, queued, now,
                   unroutable, supVars, adVars, serverVars>>

RouteToBackend(s, id) ==
    /\ IF s \notin sessions
       THEN /\ lastError' = "SessionNotFound"
            /\ UNCHANGED <<heap, messageRoutes, timers, inflight, wire, errorEvents,
                           nextMessage, queued>>
       ELSE IF ~transportAdapter
       THEN /\ lastError' = "TransportNotConfigured"
            /\ UNCHANGED <<heap, messageRoutes, timers, inflight, wire, errorEvents,
                           nextMessage, queued>>
       ELSE /\ nextMessage' = nextMessage + 1
            /\ queued' = IF EnableFlowControl /\ heap[s].backpressure
                          THEN queued \cup {nextMessage + 1} ELSE queued
            /\ Commit(RouteToBackendSync(Cur, s, [id |-> id, n |-> nextMessage + 1],
                                         FALSE, <<>>))
            /\ UNCHANGED lastError
    /\ UNCHANGED <<sessions, transportAdapter, failed, sentToClient, destroyed,
                   nextSessionId, now, unroutable, supVars, adVars, serverVars>>

(* The promise of sendToBackend settles.  On rejection the catch block of *)
(* routeToBackend runs; then, when the call came from the flush loop, the *)
(* loop reports the rejection and goes on.                                *)
SendSettles(f, ok) ==
    /\ f \in inflight
    /\ LET s   == f.sessionId
           st0 == [Cur EXCEPT !.inflight = @ \ {f}]
           st1 == IF ok \/ ~EnableFlowControl THEN st0
                  ELSE LET w == RestoreCredit(st0.heap[s].flowControlWindow) IN
                       [st0 EXCEPT !.heap[s].flowControlWindow = w,
                                   !.heap[s].backpressure = (w <= 0)]
           st2 == IF f.flush /\ ~ok
                  THEN [st1 EXCEPT !.errorEvents =
                            @ \cup {<<"QueuedSendFailed", s, f.id>>}]
                  ELSE st1
       IN /\ Commit(IF f.flush THEN FlushLoop(st2, s, f.rest) ELSE st2)
          /\ failed' = IF ok THEN failed ELSE failed \cup {<<s, f.sequence>>}
          /\ lastError' = IF f.flush \/ ok THEN lastError ELSE "RouteToBackendFailed"
    /\ UNCHANGED <<sessions, transportAdapter, sentToClient, destroyed,
                   nextSessionId, nextMessage, queued, now, unroutable, supVars, adVars, serverVars>>

SendToBackendResolves == \E f \in inflight : SendSettles(f, TRUE)

SendToBackendRejects(max) ==
    /\ Cardinality(failed) < max
    /\ \E f \in inflight : SendSettles(f, FALSE)

RouteToClient(s, id, ok) ==
    /\ IF s \notin sessions
       THEN /\ lastError' = "SessionNotFound"
            /\ UNCHANGED <<heap, messageRoutes, timers, inflight, wire, errorEvents,
                           sentToClient>>
       ELSE IF ~transportAdapter
       THEN /\ lastError' = "TransportNotConfigured"
            /\ UNCHANGED <<heap, messageRoutes, timers, inflight, wire, errorEvents,
                           sentToClient>>
       ELSE /\ Commit(RouteToClientSync(Cur, s, id))
            /\ sentToClient' = sentToClient + 1
            /\ lastError' = IF ok THEN lastError ELSE "RouteToClientFailed"
    /\ UNCHANGED <<sessions, transportAdapter, failed, destroyed, nextSessionId,
                   nextMessage, queued, now, unroutable, supVars, adVars, serverVars>>

(* The callback armed by setupRequestTimeout runs. *)
RequestTimeout(t) ==
    /\ t \in timers
    /\ LET st0 == [Cur EXCEPT !.timers = @ \ {t}]
           st1 == ClearRequestTimeout(st0, t[1], t[2])
       IN Commit([st1 EXCEPT !.errorEvents =
                      @ \cup {<<"RequestTimeout", t[1], t[2]>>}])
    /\ UNCHANGED <<sessions, transportAdapter, failed, sentToClient, destroyed, lastError,
                   nextSessionId, nextMessage, queued, now, unroutable, supVars, adVars, serverVars>>

(* An unaddressed message is handed to whichever session is live. *)
ResolveTarget_AnyLive(routes, sessionId, id) ==
    IF sessionId # NoSession THEN sessionId
    ELSE IF id # NoId /\ routes[id] # NoSession THEN routes[id]
    ELSE IF sessions # {} THEN CHOOSE s \in sessions : TRUE
    ELSE NoSession

(* handleInboundMessage lines 245-250: the session the envelope names, or *)
(* else the one the routing table records for the payload's id.           *)
ResolveTarget(routes, sessionId, id) ==
    IF sessionId # NoSession THEN sessionId
    ELSE IF id # NoId THEN routes[id]
    ELSE NoSession

(* handleInboundMessage, run by the adapter's 'message.inbound' event.  A *)
(* rejection of routeToClient is caught and emitted as an 'error' event.  *)
HandleInboundMessage(sessionId, id, ok) ==
    /\ transportAdapter
    /\ LET target == ResolveTarget(messageRoutes, sessionId, id) IN
       IF target = NoSession
       THEN /\ unroutable' = unroutable + 1
            /\ UNCHANGED <<heap, messageRoutes, timers, inflight, wire, errorEvents,
                           sentToClient>>
       ELSE IF target \notin sessions
       THEN /\ errorEvents' = errorEvents \cup {<<"InboundFailed", target, id>>}
            /\ UNCHANGED <<heap, messageRoutes, timers, inflight, wire, sentToClient,
                           unroutable>>
       ELSE /\ LET st == RouteToClientSync(Cur, target, id) IN
               Commit(IF ok THEN st
                      ELSE [st EXCEPT !.errorEvents =
                               @ \cup {<<"InboundFailed", target, id>>}])
            /\ sentToClient' = sentToClient + 1
            /\ UNCHANGED unroutable
    /\ UNCHANGED <<sessions, transportAdapter, failed, destroyed, lastError,
                   nextSessionId, nextMessage, queued, now, supVars, adVars, serverVars>>

(* The idle test with the boundary included. *)
IsIdle_Inclusive(t, activity) == t - activity >= SessionIdleTimeout

(* cleanupIdleSessions lines 350-352: idleTime > idleTimeout. *)
IsIdle(t, activity) == t - activity > SessionIdleTimeout

(* cleanupIdleSessions, run by the interval timer: destroySession for     *)
(* every session of the table that is idle.                               *)
CleanupIdleSessions ==
    LET idle == {s \in sessions : IsIdle(now, heap[s].lastActivity)} IN
    /\ timers' = timers \ {<<s, i, heap[s].pendingRequests[i]>> :
                              s \in idle, i \in MsgIds}
    /\ messageRoutes' = [i \in MsgIds |->
                           IF messageRoutes[i] \in idle THEN NoSession
                           ELSE messageRoutes[i]]
    /\ sessions' = sessions \ idle
    /\ destroyed' = [s \in SessionIds |->
                       IF s \in idle THEN destroyed[s] + 1 ELSE destroyed[s]]
    /\ UNCHANGED <<heap, transportAdapter, inflight, wire, failed, sentToClient,
                   errorEvents, lastError, nextSessionId, nextMessage, queued, now,
                   unroutable, supVars, adVars, serverVars>>

(* The clock advances; it stops once every session that clients can still *)
(* touch has been idle for longer than the timeout.                       *)
Tick ==
    /\ now < LastInputTime + SessionIdleTimeout + 1
    /\ now' = now + 1
    /\ UNCHANGED <<sessions, heap, messageRoutes, transportAdapter, timers, inflight,
                   wire, failed, sentToClient, destroyed, errorEvents, lastError,
                   nextSessionId, nextMessage, queued, unroutable, supVars, adVars, serverVars>>

RouteToBackendCall(max, ids) ==
    /\ nextMessage < max
    /\ \E s \in SessionIds, id \in ids : RouteToBackend(s, id)

RouteToClientCall(max, ids) ==
    /\ sentToClient < max
    /\ \E s \in SessionIds, id \in ids, ok \in BOOLEAN : RouteToClient(s, id, ok)

DestroySessionCall == \E s \in SessionIds : DestroySession(s)

RequestTimeoutFires == \E t \in timers : RequestTimeout(t)

HandleInboundMessageCall(max, ids) ==
    /\ sentToClient + unroutable < max
    /\ \E sessionId \in {s \in SessionIds : s < nextSessionId} \cup {NoSession},
          id \in ids, ok \in BOOLEAN :
          HandleInboundMessage(sessionId, id, ok)

Next ==
    \/ SetTransportAdapter
    \/ CreateSession(MaxSessionIds)
    \/ DestroySessionCall
    \/ RouteToBackendCall(MaxMessages, {NoId} \cup MsgIds)
    \/ SendToBackendResolves
    \/ SendToBackendRejects(MaxFailures)
    \/ RouteToClientCall(MaxToClient, {NoId} \cup MsgIds)
    \/ RequestTimeoutFires

Spec == Init /\ [][Next]_vars

(* One session id, more traffic. *)
NextFlow ==
    \/ SetTransportAdapter
    \/ CreateSession(1)
    \/ DestroySessionCall
    \/ RouteToBackendCall(MaxFlowMessages, {NoId} \cup MsgIds)
    \/ SendToBackendResolves
    \/ SendToBackendRejects(MaxFailures)
    \/ RouteToClientCall(MaxFlowToClient, {NoId} \cup MsgIds)
    \/ RequestTimeoutFires

SpecFlow == Init /\ [][NextFlow]_vars

(* One session id and messages without ids (notifications), more traffic *)
(* still: no request timer is ever armed.                                 *)
NextFifo ==
    \/ SetTransportAdapter
    \/ CreateSession(1)
    \/ DestroySessionCall
    \/ RouteToBackendCall(MaxFifoMessages, {NoId})
    \/ SendToBackendResolves
    \/ SendToBackendRejects(MaxFailures)
    \/ RouteToClientCall(MaxFifoToClient, {NoId})

SpecFifo == Init /\ [][NextFifo]_vars

(* One session id; the backend's messages arrive through the adapter's    *)
(* 'message.inbound' event, addressed to a session that was created or    *)
(* not addressed at all.                                                  *)
NextInbound ==
    \/ SetTransportAdapter
    \/ CreateSession(1)
    \/ DestroySessionCall
    \/ RouteToBackendCall(MaxInboundMessages, {NoId} \cup MsgIds)
    \/ SendToBackendResolves
    \/ SendToBackendRejects(MaxFailures)
    \/ HandleInboundMessageCall(MaxInbound, {NoId} \cup MsgIds)
    \/ RequestTimeoutFires

SpecInbound == Init /\ [][NextInbound]_vars

(* The calls clients and the backend make under SpecSweep. *)
SweepCreateSession == now <= LastInputTime /\ CreateSession(1)

SweepRouteToBackend ==
    now <= LastInputTime /\ RouteToBackendCall(MaxSweepMessages, {NoId} \cup MsgIds)

SweepRouteToClient ==
    now <= LastInputTime /\ RouteToClientCall(MaxSweepToClient, {NoId} \cup MsgIds)

(* One session id, the clock and the periodic sweep; no explicit          *)
(* destroySession.  The timers of the event loop fire: the interval timer *)
(* of the sweep is never starved, and time passes.                        *)
NextSweep ==
    \/ SetTransportAdapter
    \/ SweepCreateSession
    \/ SweepRouteToBackend
    \/ SendToBackendResolves
    \/ SweepRouteToClient
    \/ RequestTimeoutFires
    \/ Tick
    \/ CleanupIdleSessions

SpecSweep ==
    Init /\ [][NextSweep]_vars /\ WF_vars(Tick) /\ WF_vars(CleanupIdleSessions)

(* The requests of session s that the transport accepted and that have    *)
(* no response yet.                                                       *)
Outstanding(s) ==
    {i \in 1..Len(wire[s]) :
        /\ wire[s][i].payload.id # NoId
        /\ <<s, wire[s][i].sequence>> \notin failed
        /\ \A f \in inflight : ~(f.sessionId = s /\ f.sequence = wire[s][i].sequence)
        /\ heap[s].pendingRequests[wire[s][i].payload.id] = wire[s][i].sequence}

(* The backend's response to an outstanding request is routed. *)
BackendResponds ==
    \E s \in sessions : \E i \in Outstanding(s) :
        RouteToClient(s, wire[s][i].payload.id, TRUE)

(* One session id and requests that complete: every send settles, and the *)
(* backend answers every request it received well before the request      *)
(* timeout.                                                               *)
NextDrain ==
    \/ SetTransportAdapter
    \/ CreateSession(1)
    \/ DestroySessionCall
    \/ RouteToBackendCall(MaxDrainMessages, MsgIds)
    \/ SendToBackendResolves
    \/ SendToBackendRejects(MaxFailures)
    \/ BackendResponds

SpecDrain ==
    Init /\ [][NextDrain]_vars
         /\ WF_vars(SendToBackendResolves) /\ WF_vars(BackendResponds)

(* One session id and a backend that accepts every message and answers    *)
(* none: the request timers fire.                                         *)
NextCredit ==
    \/ SetTransportAdapter
    \/ CreateSession(1)
    \/ DestroySessionCall
    \/ RouteToBackendCall(MaxDrainMessages, {NoId} \cup MsgIds)
    \/ SendToBackendResolves
    \/ RequestTimeoutFires

SpecCredit ==
    Init /\ [][NextCredit]_vars
         /\ WF_vars(SendToBackendResolves) /\ WF_vars(RequestTimeoutFires)

(* ------------------------- process supervisor ------------------------- *)

(* The part of the supervisors' state their handlers mutate, passed       *)
(* through the helpers below as one record.                               *)
SupCur ==
    [ status |-> status, isHealthy |-> isHealthy, restartCount |-> restartCount,
      process |-> process, idleTimer |-> idleTimer,
      healthCheckInterval |-> healthCheckInterval, children |-> children,
      lockFile |-> lockFile, supTimers |-> supTimers, startResult |-> startResult,
      startedEvents |-> startedEvents, crashEvents |-> crashEvents,
      stoppedEvents |-> stoppedEvents, nextChild |-> nextChild ]

SupCommit(st) ==
    /\ status' = st.status
    /\ isHealthy' = st.isHealthy
    /\ restartCount' = st.restartCount
    /\ process' = st.process
    /\ idleTimer' = st.idleTimer
    /\ healthCheckInterval' = st.healthCheckInterval
    /\ children' = st.children
    /\ lockFile' = st.lockFile
    /\ supTimers' = st.supTimers
    /\ startResult' = st.startResult
    /\ startedEvents' = st.startedEvents
    /\ crashEvents' = st.crashEvents
    /\ stoppedEvents' = st.stoppedEvents
    /\ nextChild' = st.nextChild

RECURSIVE Pow2(_)
Pow2(n) == IF n = 0 THEN 1 ELSE 2 * Pow2(n - 1)

(* The delay computed from the count before the increment: 1 s, 2 s, ... *)
Backoff_BeforeIncrement(count) == Pow2(count - 1)

(* attemptRestart line 308: Math.pow(2, restartCount) * 1000 ms, in       *)
(* seconds.                                                               *)
Backoff(count) == Pow2(count)

(* setTimeout: a timer of supervisor p is armed for dur seconds, after    *)
(* the timers of p that are pending.                                      *)
Arm(st, p, kind, caller, dur, n) ==
    LET pending == {u.armed : u \in {x \in st.supTimers : x.sup = p}}
        last == IF pending = {} THEN 0
                ELSE CHOOSE a \in pending : \A b \in pending : b <= a
    IN [st EXCEPT !.supTimers = @ \cup {[sup |-> p, kind |-> kind, caller |-> caller,
                                         deadline |-> now + dur, dur |-> dur,
                                         armed |-> last + 1, n |-> n]}]

(* A timer is due and the event loop runs it: of the due timers of one    *)
(* process that were armed for the same duration, the one armed first.    *)
Due(t) ==
    /\ t.deadline <= now
    /\ \A u \in supTimers :
          (u.sup = t.sup /\ u.deadline <= now /\ u.dur = t.dur) => u.armed >= t.armed

(* updateStatus *)
UpdateStatus(st, p, v) ==
    [st EXCEPT !.status[p] = v,
               !.isHealthy[p] = IF v = "crashed" THEN FALSE ELSE @]

(* clearTimers: the interval and the timer the supervisor holds. *)
ClearTimers(st, p) ==
    [st EXCEPT !.idleTimer[p] = NoDeadline,
               !.healthCheckInterval[p] = NoInterval,
               !.supTimers = {t \in @ : ~(/\ t.sup = p /\ t.kind = "health"
                                          /\ t.n = st.healthCheckInterval[p])}]

(* cleanup: timers cleared, the handle dropped, the lock file removed     *)
(* when it exists, whoever wrote it.                                      *)
Cleanup(st, p) ==
    [ClearTimers(st, p) EXCEPT !.process[p] = NoChild, !.lockFile = NoLock]

(* createLockFile: the record names the supervisor's own pid. *)
CreateLockFile(st, p) == [st EXCEPT !.lockFile = p]

(* resetIdleTimer that leaves a timer that is armed as it is. *)
ResetIdleTimer_KeepsArmed(st, p) ==
    IF st.idleTimer[p] # NoDeadline THEN st
    ELSE [st EXCEPT !.idleTimer[p] = IF config[p].idleTimeout = 0 THEN NoDeadline
                                     ELSE now + config[p].idleTimeout]

(* resetIdleTimer *)
ResetIdleTimer(st, p) ==
    [st EXCEPT !.idleTimer[p] = IF config[p].idleTimeout = 0 THEN NoDeadline
                                ELSE now + config[p].idleTimeout]

(* The promise of an async function settles: start() reports to its       *)
(* caller, attemptRestart only logs a failure.                            *)
Settle(st, p, caller, result) ==
    IF caller = "start" THEN [st EXCEPT !.startResult[p] = result] ELSE st

(* startProcess up to the await in waitForProcessReady: without a health  *)
(* URL that is the sleep of the stabilization delay, with one the polling *)
(* of the URL, which gives up maxWaitTime after it began.                 *)
StartProcess(st, p, caller) ==
    IF st.process[p] # NoChild
    THEN Settle(st, p, caller, "alreadyRunning")
    ELSE LET c   == st.nextChild
             st1 == CreateLockFile(UpdateStatus(st, p, "starting"), p)
             st2 == [st1 EXCEPT
                       !.process[p] = c,
                       !.nextChild = c + 1,
                       !.children = @ \cup {[id |-> c, owner |-> p, spawnedAt |-> now,
                                              killed |-> FALSE]}]
         IN IF config[p].healthCheckUrl
            THEN Arm(st2, p, "probe", caller, MaxWaitTime, c)
            ELSE Arm(st2, p, "ready", caller, StabilizationDelay, c)

(* The catch block of startProcess: cleanup, and the ProcessError is      *)
(* thrown to the caller.                                                  *)
StartProcessFailed(st, p, caller) == Settle(Cleanup(st, p), p, caller, "failed")

(* startHealthCheck: with a health URL an interval is armed and held. *)
StartHealthCheck(st, p) ==
    IF ~config[p].healthCheckUrl THEN st
    ELSE [Arm(st, p, "health", "interval", HealthCheckInterval, st.process[p])
            EXCEPT !.healthCheckInterval[p] = st.process[p]]

(* startProcess after waitForProcessReady returned: this.process.pid      *)
(* throws when the handle was dropped meanwhile, and the catch block      *)
(* cleans up and rejects.                                                 *)
StartProcessReady(st, p, caller) ==
    IF st.process[p] = NoChild
    THEN StartProcessFailed(st, p, caller)
    ELSE LET st1 == ResetIdleTimer(StartHealthCheck(UpdateStatus(st, p, "running"), p), p)
         IN Settle([st1 EXCEPT !.startedEvents[p] = @ + 1], p, caller, "resolved")

(* attemptRestart with the cap compared by > : one attempt too many. *)
AttemptRestart_CapOffByOne(st, p) ==
    IF config[p].restartPolicy = "never" THEN st
    ELSE IF st.restartCount[p] > MaxRestartAttempts THEN st
    ELSE LET count == st.restartCount[p] + 1 IN
         Arm([st EXCEPT !.restartCount[p] = count],
             p, "backoff", "attemptRestart", Backoff(count), count)

(* attemptRestart without the test of the policy. *)
AttemptRestart_IgnoresPolicy(st, p) ==
    IF st.restartCount[p] >= MaxRestartAttempts THEN st
    ELSE LET count == st.restartCount[p] + 1 IN
         Arm([st EXCEPT !.restartCount[p] = count],
             p, "backoff", "attemptRestart", Backoff(count), count)

(* attemptRestart up to its sleep. *)
AttemptRestart(st, p) ==
    IF config[p].restartPolicy = "never" THEN st
    ELSE IF st.restartCount[p] >= MaxRestartAttempts THEN st
    ELSE LET count == st.restartCount[p] + 1 IN
         Arm([st EXCEPT !.restartCount[p] = count],
             p, "backoff", "attemptRestart", Backoff(count), count)

(* The 'exit' handler reports the crash and leaves the restart out. *)
OnExit_NoRestart(st, p) ==
    IF st.status[p] = "stopping"
    THEN Cleanup([UpdateStatus(st, p, "stopped") EXCEPT !.stoppedEvents[p] = @ + 1], p)
    ELSE LET st1 == UpdateStatus(st, p, "crashed")
         IN Cleanup([st1 EXCEPT !.crashEvents[p] = @ + 1], p)

(* The 'exit' handler of setupProcessHandlers. *)
OnExit(st, p) ==
    IF st.status[p] = "stopping"
    THEN Cleanup([UpdateStatus(st, p, "stopped") EXCEPT !.stoppedEvents[p] = @ + 1], p)
    ELSE LET st1 == UpdateStatus(st, p, "crashed")
             st2 == [st1 EXCEPT !.crashEvents[p] = @ + 1]
         IN Cleanup(AttemptRestart(st2, p), p)

(* isRunning *)
IsRunning(st, p) ==
    /\ st.status[p] = "running"
    /\ st.process[p] # NoChild
    /\ \A c \in st.children : c.id = st.process[p] => ~c.killed

(* stop() has run its finally block: the stop() inside restart() goes on  *)
(* to the pause of restart.                                               *)
StopReturned(st, p, caller) ==
    IF caller = "restart" THEN Arm(st, p, "pause", "restart", RestartPause, 0) ELSE st

RECURSIVE StopsReturned(_, _, _)
StopsReturned(st, p, waiting) ==
    IF waiting = {} THEN st
    ELSE LET w == CHOOSE x \in waiting : TRUE
         IN StopsReturned(StopReturned(st, p, w.caller), p, waiting \ {w})

(* stop(force) up to its await.  A forced stop kills and cleans up at     *)
(* once; a graceful stop sends SIGTERM and waits for the exit or for the  *)
(* grace period.                                                          *)
StopSync(st, p, force, caller) ==
    LET st0 == ClearTimers(st, p)
        c   == CHOOSE x \in st.children : x.id = st.process[p]
        st1 == [UpdateStatus(st0, p, "stopping") EXCEPT
                  !.children = (@ \ {c}) \cup {[c EXCEPT !.killed = TRUE]}]
    IN IF st.process[p] = NoChild
       THEN StopReturned(UpdateStatus(st0, p, "stopped"), p, caller)
       ELSE IF force THEN StopReturned(Cleanup(st1, p), p, caller)
       ELSE Arm(st1, p, "grace", caller, GracePeriod, c.id)

(* A handler of supervisor p can run: its OS process is alive and no      *)
(* start() of it is between its lock check and what follows, which run    *)
(* back to back in the event loop.                                        *)
CanRun(p) == supAlive[p] /\ startCheck[p] = "none"

(* The lock check says "running" for any record, stale or not. *)
IsAnotherInstanceRunning_IgnoresPid(lock, alive) == lock # NoLock

(* isAnotherInstanceRunning: a record exists and process.kill(pid, 0)     *)
(* finds the pid it names.                                                *)
IsAnotherInstanceRunning(lock, alive) == lock # NoLock /\ alive[lock]

(* start(cfg) up to the await of isAnotherInstanceRunning: the config is  *)
(* stored, the lock is checked and a stale record is removed.             *)
StartCheck(p, cfg) ==
    /\ CanRun(p)
    /\ config' = [config EXCEPT ![p] = cfg]
    /\ startCheck' = [startCheck EXCEPT ![p] =
                        IF IsAnotherInstanceRunning(lockFile, supAlive)
                        THEN "conflict" ELSE "free"]
    /\ lockFile' = IF IsAnotherInstanceRunning(lockFile, supAlive)
                   THEN lockFile ELSE NoLock
    /\ startResult' = [startResult EXCEPT ![p] = "pending"]
    /\ starts' = starts + 1
    /\ UNCHANGED <<supAlive, status, isHealthy, restartCount, process, idleTimer,
                   healthCheckInterval, lastActivity,
                   children, supTimers, startedEvents, crashEvents, stoppedEvents,
                   nextChild, muxState, adVars, now, serverVars>>

(* start(cfg) after the await: the conflict is thrown, or startProcess    *)
(* runs.                                                                  *)
StartProceed(p) ==
    /\ supAlive[p]
    /\ startCheck[p] # "none"
    /\ startCheck' = [startCheck EXCEPT ![p] = "none"]
    /\ SupCommit(IF startCheck[p] = "conflict"
                 THEN Settle(SupCur, p, "start", "conflict")
                 ELSE StartProcess(SupCur, p, "start"))
    /\ UNCHANGED <<supAlive, config, lastActivity, starts, muxState, adVars, now, serverVars>>

(* The sleep of waitForProcessReady ends. *)
ReadyTimer(t) ==
    /\ t \in supTimers /\ t.kind = "ready" /\ Due(t)
    /\ CanRun(t.sup)
    /\ SupCommit(StartProcessReady([SupCur EXCEPT !.supTimers = @ \ {t}],
                                   t.sup, t.caller))
    /\ UNCHANGED <<supAlive, config, lastActivity, startCheck, starts, muxState, adVars, now, serverVars>>

(* The backoff sleep of attemptRestart ends: startProcess. *)
BackoffTimer(t) ==
    /\ t \in supTimers /\ t.kind = "backoff" /\ Due(t)
    /\ CanRun(t.sup)
    /\ SupCommit(StartProcess([SupCur EXCEPT !.supTimers = @ \ {t}],
                              t.sup, t.caller))
    /\ UNCHANGED <<supAlive, config, lastActivity, startCheck, starts, muxState, adVars, now, serverVars>>

(* One round of the polling loop of waitForProcessReady ends before the   *)
(* startup timeout.  With the handle dropped, or with the child seen      *)
(* killed at the head of the loop, the loop throws; a probe that answers  *)
(* ok ends the wait; any other round changes nothing.                     *)
HealthProbe(t, ok) ==
    /\ t \in supTimers /\ t.kind = "probe" /\ now < t.deadline
    /\ CanRun(t.sup)
    /\ LET p   == t.sup
           st0 == [SupCur EXCEPT !.supTimers = @ \ {t}]
           killed == \E c \in children : c.id = process[p] /\ c.killed
       IN /\ process[p] = NoChild \/ ok \/ killed
          /\ SupCommit(IF process[p] # NoChild /\ ok
                       THEN StartProcessReady(st0, p, t.caller)
                       ELSE StartProcessFailed(st0, p, t.caller))
    /\ UNCHANGED <<supAlive, config, lastActivity, startCheck, starts, muxState, adVars, now, serverVars>>

(* The polling loop finds maxWaitTime elapsed and throws 'Process failed  *)
(* to become ready within timeout'.                                       *)
StartupTimeout(t) ==
    /\ t \in supTimers /\ t.kind = "probe" /\ Due(t)
    /\ CanRun(t.sup)
    /\ SupCommit(StartProcessFailed([SupCur EXCEPT !.supTimers = @ \ {t}],
                                    t.sup, t.caller))
    /\ UNCHANGED <<supAlive, config, lastActivity, startCheck, starts, muxState, adVars, now, serverVars>>

(* A child exits, on its own or after a signal.  The 'exit' handler of    *)
(* its supervisor runs; a graceful stop that waits for this child then    *)
(* goes on to its finally block.                                          *)
ChildExits(c) ==
    /\ c \in children
    /\ \/ ~supAlive[c.owner]
       \/ CanRun(c.owner)
    /\ LET p   == c.owner
           st0 == [SupCur EXCEPT !.children = @ \ {c}]
           waiting == {t \in supTimers :
                          t.sup = p /\ t.kind = "grace" /\ t.n = c.id}
           st1 == OnExit(st0, p)
       IN SupCommit(IF ~supAlive[p] THEN st0
                    ELSE IF waiting = {} THEN st1
                    ELSE StopsReturned(Cleanup([st1 EXCEPT !.supTimers = @ \ waiting], p),
                                       p, waiting))
    /\ UNCHANGED <<supAlive, config, lastActivity, startCheck, starts, muxState, adVars, now, serverVars>>

(* stop(force).  A forced stop kills and cleans up at once; a graceful    *)
(* stop sends SIGTERM and waits for the exit or for the grace period.     *)
Stop(p, force) ==
    /\ CanRun(p)
    /\ SupCommit(StopSync(SupCur, p, force, "stop"))
    /\ UNCHANGED <<supAlive, config, lastActivity, startCheck, starts, muxState, adVars, now, serverVars>>

(* The grace period of a graceful stop ends: SIGKILL to the child the     *)
(* supervisor holds now, then the finally block.                          *)
GraceTimer(t) ==
    /\ t \in supTimers /\ t.kind = "grace" /\ Due(t)
    /\ CanRun(t.sup)
    /\ LET p == t.sup
           st0 == [SupCur EXCEPT
                     !.supTimers = @ \ {t},
                     !.children = {IF x.id = process[p] THEN [x EXCEPT !.killed = TRUE]
                                   ELSE x : x \in @}]
       IN SupCommit(StopReturned(Cleanup(st0, p), p, t.caller))
    /\ UNCHANGED <<supAlive, config, lastActivity, startCheck, starts, muxState, adVars, now, serverVars>>

(* The pause of restart() ends: startProcess. *)
PauseTimer(t) ==
    /\ t \in supTimers /\ t.kind = "pause" /\ Due(t)
    /\ CanRun(t.sup)
    /\ SupCommit(StartProcess([SupCur EXCEPT !.supTimers = @ \ {t}],
                              t.sup, t.caller))
    /\ UNCHANGED <<supAlive, config, lastActivity, startCheck, starts, muxState, adVars, now, serverVars>>

(* The health-check interval fires: isHealthy() answers false at once     *)
(* for a supervisor that is not running, and nothing follows; otherwise   *)
(* it fetches the URL.                                                    *)
HealthCheckTimer(t) ==
    /\ t \in supTimers /\ t.kind = "health" /\ Due(t)
    /\ CanRun(t.sup)
    /\ LET p   == t.sup
           st0 == [SupCur EXCEPT !.supTimers =
                      (@ \ {t}) \cup {[t EXCEPT !.deadline = @ + HealthCheckInterval]}]
       IN SupCommit(IF IsRunning(SupCur, p)
                    THEN Arm(st0, p, "fetch", "interval", 0, t.n)
                    ELSE st0)
    /\ UNCHANGED <<supAlive, config, lastActivity, startCheck, starts, muxState, adVars, now, serverVars>>

(* The fetch of isHealthy() settles, within the second: isHealthy is      *)
(* recorded, and an unhealthy supervisor that is running is restarted     *)
(* when the policy is not 'never'.                                        *)
HealthFetchDone(t, ok) ==
    /\ t \in supTimers /\ t.kind = "fetch" /\ Due(t)
    /\ CanRun(t.sup)
    /\ LET p   == t.sup
           st0 == [SupCur EXCEPT !.supTimers = @ \ {t}, !.isHealthy[p] = ok]
       IN SupCommit(IF ~ok /\ IsRunning(st0, p) /\ config[p].restartPolicy # "never"
                    THEN StopSync(st0, p, FALSE, "restart")
                    ELSE st0)
    /\ UNCHANGED <<supAlive, config, lastActivity, startCheck, starts, muxState, adVars, now, serverVars>>

(* updateActivity, on a supervisor that start() has configured. *)
UpdateActivity(p) ==
    /\ CanRun(p)
    /\ starts > 0
    /\ lastActivity' = [lastActivity EXCEPT ![p] = now]
    /\ SupCommit(ResetIdleTimer(SupCur, p))
    /\ UNCHANGED <<supAlive, config, startCheck, starts, muxState, adVars, now, serverVars>>

(* The idle timer fires: stop() when the idle time has reached the        *)
(* timeout.                                                               *)
IdleTimer(p) ==
    /\ idleTimer[p] # NoDeadline /\ idleTimer[p] <= now
    /\ CanRun(p)
    /\ LET st0 == [SupCur EXCEPT !.idleTimer[p] = NoDeadline]
       IN SupCommit(IF now - lastActivity[p] >= config[p].idleTimeout
                    THEN StopSync(st0, p, FALSE, "stop")
                    ELSE st0)
    /\ UNCHANGED <<supAlive, config, lastActivity, startCheck, starts, muxState, adVars, now, serverVars>>

(* The OS process of a supervisor is killed: its handlers and timers are  *)
(* gone, its child and its lock record stay behind.                       *)
SupervisorKilled(p) ==
    /\ supAlive[p]
    /\ supAlive' = [supAlive EXCEPT ![p] = FALSE]
    /\ supTimers' = {t \in supTimers : t.sup # p}
    /\ startCheck' = [startCheck EXCEPT ![p] = "none"]
    /\ UNCHANGED <<config, status, isHealthy, restartCount, process, idleTimer,
                   healthCheckInterval, lastActivity,
                   children, lockFile, startResult, startedEvents, crashEvents,
                   stoppedEvents, nextChild, starts, muxState, adVars, now, serverVars>>

(* Time passes, one second at a time; a timer that is due fires first.    *)
SupTick(max) ==
    /\ now < max
    /\ \A t \in supTimers : t.deadline > now
    /\ \A p \in Supervisors : idleTimer[p] = NoDeadline \/ idleTimer[p] > now
    /\ \A p \in Supervisors : startCheck[p] = "none"
    /\ now' = now + 1
    /\ UNCHANGED <<muxState, supVars, adVars, serverVars>>

StartCall(ps, max, cfgs) ==
    /\ starts < max
    /\ \E p \in ps, cfg \in cfgs : StartCheck(p, cfg)

StartProceeds(ps) == \E p \in ps : StartProceed(p)

StopCall(ps, forces) ==
    \E p \in ps, force \in forces :
        /\ force \/ Cardinality({t \in supTimers : t.sup = p /\ t.kind = "grace"})
                        < MaxPendingStops
        /\ Stop(p, force)

ReadyTimerFires == \E t \in supTimers : ReadyTimer(t)

BackoffTimerFires == \E t \in supTimers : BackoffTimer(t)

GraceTimerFires == \E t \in supTimers : GraceTimer(t)

HealthProbes == \E t \in supTimers, ok \in BOOLEAN : HealthProbe(t, ok)

StartupTimeouts == \E t \in supTimers : StartupTimeout(t)

HealthCheckTimerFires == \E t \in supTimers : HealthCheckTimer(t)

HealthFetches == \E t \in supTimers, ok \in BOOLEAN : HealthFetchDone(t, ok)

PauseTimerFires == \E t \in supTimers : PauseTimer(t)

ChildExit == \E c \in children : ChildExits(c)

SupervisorKill(ps) == \E p \in ps : SupervisorKilled(p)

(* One supervisor: start, stop, child exits, timers, the clock. *)
NextSup ==
    \/ StartCall({1}, MaxStarts, PlainConfigs(RestartPolicies))
    \/ StartProceeds({1})
    \/ StopCall({1}, BOOLEAN)
    \/ ChildExit
    \/ ReadyTimerFires
    \/ BackoffTimerFires
    \/ GraceTimerFires
    \/ SupTick(MaxClock)

SpecSup == Init /\ [][NextSup]_vars

(* One supervisor whose stops are forced, under the event loop's          *)
(* scheduling: time passes, a timer that is due fires, and a              *)
(* continuation that is ready runs.                                       *)
NextRestart ==
    \/ StartCall({1}, MaxStarts, PlainConfigs(RestartPolicies))
    \/ StartProceeds({1})
    \/ StopCall({1}, {TRUE})
    \/ ChildExit
    \/ ReadyTimerFires
    \/ BackoffTimerFires
    \/ SupTick(MaxClock)

SpecRestart ==
    Init /\ [][NextRestart]_vars
         /\ WF_vars(SupTick(MaxClock)) /\ WF_vars(StartProceeds({1}))
         /\ WF_vars(ReadyTimerFires) /\ WF_vars(BackoffTimerFires)

(* Configurations with a health URL. *)
HealthConfigs ==
    [restartPolicy : RestartPolicies, healthCheckUrl : {TRUE}, idleTimeout : {IdleTimeout}]

(* One supervisor with a health URL: the polling at startup, the periodic *)
(* health check and the restart it asks for, crashes and their restarts.  *)
HealthStartCall ==
    now <= LastStartTime /\ StartCall({1}, MaxHealthStarts, HealthConfigs)

NextHealth ==
    \/ HealthStartCall
    \/ StartProceeds({1})
    \/ ChildExit
    \/ HealthProbes
    \/ StartupTimeouts
    \/ HealthCheckTimerFires
    \/ HealthFetches
    \/ GraceTimerFires
    \/ PauseTimerFires
    \/ BackoffTimerFires
    \/ SupTick(MaxHealthClock)

SpecHealth == Init /\ [][NextHealth]_vars

(* Configurations with a short idle timeout and no health URL. *)
IdleConfigs ==
    [restartPolicy : RestartPolicies, healthCheckUrl : {FALSE},
     idleTimeout : {ShortIdleTimeout}]

IdleStartCall ==
    now <= LastStartTime /\ StartCall({1}, MaxIdleStarts, IdleConfigs)

UpdateActivityCall == now <= LastActivityTime /\ UpdateActivity(1)

IdleTimerFires == \E p \in Supervisors : IdleTimer(p)

(* A child exits only after it was signalled. *)
KilledChildExit == \E c \in children : c.killed /\ ChildExits(c)

(* One supervisor with a short idle timeout whose child does not exit on  *)
(* its own, under the event loop's scheduling; a signalled child exits in *)
(* the end.                                                               *)
NextIdle ==
    \/ IdleStartCall
    \/ StartProceeds({1})
    \/ ReadyTimerFires
    \/ UpdateActivityCall
    \/ IdleTimerFires
    \/ GraceTimerFires
    \/ KilledChildExit
    \/ SupTick(MaxIdleClock)

SpecIdle ==
    Init /\ [][NextIdle]_vars
         /\ WF_vars(SupTick(MaxIdleClock)) /\ WF_vars(StartProceeds({1}))
         /\ WF_vars(ReadyTimerFires) /\ WF_vars(IdleTimerFires)
         /\ WF_vars(GraceTimerFires) /\ WF_vars(KilledChildExit)

(* Two supervisors in different OS processes that share the lock path;    *)
(* either OS process can be killed; stops are forced.                     *)
NextLock ==
    \/ StartCall(Supervisors, MaxLockStarts, PlainConfigs({"on-failure"}))
    \/ StartProceeds(Supervisors)
    \/ StopCall({1}, {TRUE})
    \/ ChildExit
    \/ ReadyTimerFires
    \/ BackoffTimerFires
    \/ SupervisorKill(Supervisors)
    \/ SupTick(MaxLockClock)

SpecLock == Init /\ [][NextLock]_vars

(* ------------------------ the transport adapter ------------------------ *)
(* Text is a sequence of characters.  JSON is cut down to what the        *)
(* adapter looks at: an object is written { members } where each member   *)
(* is one character, m for "method":"ping", n for "method":1, r for       *)
(* "result":0, e for "error":0 and h for "hasOwnProperty":0; 0 is a       *)
(* number; blanks may stand between tokens; every other text is rejected  *)
(* by JSON.parse.                                                         *)
NL == "\n"

Blank == " "

Members == {"n", "m", "r", "e", "h"}

(* String.prototype.split('\n') *)
RECURSIVE Split(_)
Split(text) ==
    IF \A i \in 1..Len(text) : text[i] # NL THEN <<text>>
    ELSE LET i == CHOOSE k \in 1..Len(text) :
                     text[k] = NL /\ \A j \in 1..(k - 1) : text[j] # NL
         IN <<SubSeq(text, 1, i - 1)>> \o Split(SubSeq(text, i + 1, Len(text)))

(* String.prototype.trim() *)
RECURSIVE Trim(_)
Trim(line) ==
    IF line = <<>> THEN <<>>
    ELSE IF Head(line) = Blank THEN Trim(Tail(line))
    ELSE IF line[Len(line)] = Blank THEN Trim(SubSeq(line, 1, Len(line) - 1))
    ELSE line

(* JSON.parse *)
JsonParse(text) ==
    LET t == SelectSeq(text, LAMBDA c : c # Blank) IN
    IF t = <<"0">> THEN [ok |-> TRUE, type |-> "number", members |-> <<>>]
    ELSE IF /\ Len(t) >= 2 /\ t[1] = "{" /\ t[Len(t)] = "}"
            /\ \A i \in 2..(Len(t) - 1) : t[i] \in Members
    THEN [ok |-> TRUE, type |-> "object", members |-> SubSeq(t, 2, Len(t) - 1)]
    ELSE [ok |-> FALSE, type |-> "none", members |-> <<>>]

(* obj.method is a string: of repeated members JSON.parse keeps the last. *)
HasMethod(obj) ==
    LET ms == SelectSeq(obj.members, LAMBDA c : c \in {"n", "m"})
    IN ms # <<>> /\ ms[Len(ms)] = "m"

HasMember(obj, c) == \E i \in 1..Len(obj.members) : obj.members[i] = c

(* Utils.isValidMCPMessage: "true", "false", or "throws" when             *)
(* obj.hasOwnProperty is the object's own member and not a function.      *)
IsValidMCPMessage(obj) ==
    IF obj.type # "object" THEN "false"
    ELSE IF HasMember(obj, "h") THEN "throws"
    ELSE IF HasMethod(obj) \/ HasMember(obj, "r") \/ HasMember(obj, "e") THEN "true"
    ELSE "false"

(* The adapter state that handleStdinData works on. *)
StdioCur ==
    [messageBuffer |-> messageBuffer, outboundSequence |-> outboundSequence,
     adapterEvents |-> adapterEvents]

(* The adapter after its constructor. *)
StdioNew == [messageBuffer |-> <<>>, outboundSequence |-> 0, adapterEvents |-> <<>>]

(* processIncomingMessage *)
ProcessIncomingMessage(st, message) ==
    LET obj == JsonParse(message) IN
    IF obj.ok /\ IsValidMCPMessage(obj) = "true"
    THEN [st EXCEPT
            !.outboundSequence = @ + 1,
            !.adapterEvents = Append(@, [type |-> "message.outbound",
                                         sequence |-> st.outboundSequence + 1,
                                         payload |-> obj.members])]
    ELSE [st EXCEPT
            !.adapterEvents = Append(@, [type |-> "error", sequence |-> 0,
                                         payload |-> <<>>])]

(* The loop of handleStdinData over the complete lines. *)
RECURSIVE ProcessLines(_, _)
ProcessLines(st, lines) ==
    IF lines = <<>> THEN st
    ELSE LET line == Trim(Head(lines))
         IN ProcessLines(IF line # <<>> THEN ProcessIncomingMessage(st, line) ELSE st,
                         Tail(lines))

(* handleStdinData that forgets the incomplete line. *)
HandleStdinData_DropsPartial(st, chunk) ==
    LET lines == Split(st.messageBuffer \o chunk)
    IN ProcessLines([st EXCEPT !.messageBuffer = <<>>],
                    SubSeq(lines, 1, Len(lines) - 1))

(* handleStdinData *)
HandleStdinData(st, chunk) ==
    LET lines == Split(st.messageBuffer \o chunk)
    IN ProcessLines([st EXCEPT !.messageBuffer = lines[Len(lines)]],
                    SubSeq(lines, 1, Len(lines) - 1))

(* The lines a client writes. *)
LineTexts ==
    { <<"{", "m", "}">>, <<"{", "r", "}">>, <<Blank, "{", "e", "}", Blank>>,
      <<"{", "m", "h", "}">>, <<"{", "n", "}">>, <<"{", "}">>, <<"0">>, <<"x">>,
      <<Blank>>, <<>> }

RECURSIVE StreamsOf(_)
StreamsOf(n) ==
    IF n = 0 THEN {<<>>}
    ELSE LET shorter == StreamsOf(n - 1)
         IN shorter \cup {text \o line \o <<NL>> : text \in shorter, line \in LineTexts}

(* What a client writes: up to MaxLines lines, and perhaps the beginning  *)
(* of one more.                                                           *)
Streams ==
    {text \o tail : text \in StreamsOf(MaxLines), tail \in {<<>>, <<"{", "m">>}} \ {<<>>}

(* The client writes to the pipe, once. *)
ClientWrites(text) ==
    /\ pipe = <<>> /\ received = <<>>
    /\ pipe' = text
    /\ UNCHANGED <<received, messageBuffer, outboundSequence, adapterEvents, isStarted,
                   backendConnected, pendingRequests, backendType, requests, posts, stopped,
                   muxState, supVars, now, serverVars>>

(* stdin delivers the next k characters in a 'data' event to the listener *)
(* that the constructor attached.                                         *)
StdinData(k) ==
    /\ k \in 1..Len(pipe)
    /\ LET st == HandleStdinData(StdioCur, SubSeq(pipe, 1, k))
       IN /\ messageBuffer' = st.messageBuffer
          /\ outboundSequence' = st.outboundSequence
          /\ adapterEvents' = st.adapterEvents
    /\ received' = received \o SubSeq(pipe, 1, k)
    /\ pipe' = SubSeq(pipe, k + 1, Len(pipe))
    /\ UNCHANGED <<isStarted, backendConnected, pendingRequests, backendType, requests, posts,
                   stopped, muxState, supVars, now, serverVars>>

ClientWrite == \E text \in Streams : ClientWrites(text)

StdinChunk == \E k \in 1..Len(pipe) : StdinData(k)

(* The adapter reading stdin. *)
NextStdio ==
    \/ ClientWrite
    \/ StdinChunk

SpecStdio == Init /\ [][NextStdio]_vars

BackendTypes == {"http", "websocket"}

StdioVars == <<pipe, received, messageBuffer, outboundSequence>>

Emit(type, sequence) ==
    adapterEvents' = Append(adapterEvents, [type |-> type, sequence |-> sequence,
                                            payload |-> <<>>])

(* start(), with a backend that accepts the connection. *)
AdapterStart(type) ==
    /\ ~isStarted
    /\ backendType' = type
    /\ backendConnected' = TRUE
    /\ isStarted' = TRUE
    /\ stopped' = FALSE
    /\ Emit("transport.connected", 0)
    /\ UNCHANGED <<StdioVars, pendingRequests, requests, posts, muxState, supVars, now, serverVars>>

(* setResponseTimeout: the timers held by this.pendingRequests after it. *)
SetResponseTimeout(pending, sequence) ==
    {t \in pending : t.sequence # sequence}
        \cup {[sequence |-> sequence, deadline |-> now + ShortResponseTimeout]}

(* handleBackendResponse: the timers held by this.pendingRequests after it. *)
HandleBackendResponse(pending, sequence) == {t \in pending : t.sequence # sequence}

Answered(sequence) ==
    {IF r.sequence = sequence /\ r.answeredAt = Never
        THEN [r EXCEPT !.answeredAt = now] ELSE r : r \in requests}

(* The promise of sendToBackend(envelope) settles: "sent" when it         *)
(* resolves, else the reason of the TransportError it rejects with.       *)
Settled(reqs, sequence, result) ==
    {IF r.sequence = sequence THEN [r EXCEPT !.result = result] ELSE r : r \in reqs}

(* sendToBackend(envelope) up to its await.  Over HTTP the POST is sent   *)
(* under withTimeout; over the socket the frame is written and its        *)
(* callback runs before anything else, then the timer is armed.           *)
SendToBackend(sequence) ==
    /\ backendConnected
    /\ \A r \in requests : r.sequence # sequence
    /\ requests' = requests \cup
                     {[sequence |-> sequence, sentAt |-> now, answeredAt |-> Never,
                       result |-> IF backendType = "websocket" THEN "sent" ELSE "pending"]}
    /\ IF backendType = "websocket"
       THEN /\ pendingRequests' = SetResponseTimeout(pendingRequests, sequence)
            /\ UNCHANGED posts
       ELSE /\ posts' = posts \cup
                          {[sequence |-> sequence, deadline |-> now + ShortResponseTimeout]}
            /\ UNCHANGED pendingRequests
    /\ UNCHANGED <<StdioVars, adapterEvents, isStarted, backendConnected, backendType,
                   stopped, muxState, supVars, now, serverVars>>

(* The POST settles before withTimeout gives up.  With an ok response     *)
(* sendViaHttp hands it to handleBackendResponse and returns, and         *)
(* sendToBackend goes on to setResponseTimeout; otherwise sendToBackend   *)
(* rejects.                                                               *)
HttpResponse(post, ok) ==
    /\ post \in posts
    /\ now < post.deadline
    /\ posts' = posts \ {post}
    /\ IF ok
       THEN /\ Emit("message.inbound", post.sequence)
            /\ requests' = Settled(Answered(post.sequence), post.sequence, "sent")
            /\ pendingRequests' =
                  SetResponseTimeout(HandleBackendResponse(pendingRequests, post.sequence),
                                     post.sequence)
       ELSE /\ requests' = Settled(requests, post.sequence, "HTTP request failed")
            /\ UNCHANGED <<adapterEvents, pendingRequests>>
    /\ UNCHANGED <<StdioVars, isStarted, backendConnected, backendType, stopped,
                   muxState, supVars, now, serverVars>>

(* withTimeout gives up on the POST: sendToBackend rejects. *)
HttpTimeout(post) ==
    /\ post \in posts
    /\ post.deadline <= now
    /\ posts' = posts \ {post}
    /\ requests' = Settled(requests, post.sequence, "Operation timed out")
    /\ UNCHANGED <<StdioVars, adapterEvents, isStarted, backendConnected, backendType,
                   pendingRequests, stopped, muxState, supVars, now, serverVars>>

(* The socket delivers the backend's answer to a request, in envelope     *)
(* format; a timer that is due fires first.                               *)
WebSocketMessage(sequence) ==
    /\ backendType = "websocket" /\ backendConnected
    /\ \E r \in requests : r.sequence = sequence /\ r.answeredAt = Never
    /\ \A t \in pendingRequests : t.sequence = sequence => t.deadline > now
    /\ pendingRequests' = HandleBackendResponse(pendingRequests, sequence)
    /\ requests' = Answered(sequence)
    /\ Emit("message.inbound", sequence)
    /\ UNCHANGED <<StdioVars, isStarted, backendConnected, backendType, posts, stopped,
                   muxState, supVars, now, serverVars>>

(* The callback of setResponseTimeout. *)
ResponseTimer(t) ==
    /\ t \in pendingRequests
    /\ t.deadline <= now
    /\ pendingRequests' = pendingRequests \ {t}
    /\ Emit("timeout", t.sequence)
    /\ UNCHANGED <<StdioVars, isStarted, backendConnected, backendType, requests, posts,
                   stopped, muxState, supVars, now, serverVars>>

(* stop() *)
AdapterStop ==
    /\ isStarted
    /\ isStarted' = FALSE
    /\ pendingRequests' = {}
    /\ backendConnected' = FALSE
    /\ stopped' = TRUE
    /\ Emit("transport.disconnected", 0)
    /\ UNCHANGED <<StdioVars, backendType, requests, posts, muxState, supVars, now, serverVars>>

(* A second passes; timers that are due fire first. *)
AdapterTick(max) ==
    /\ now < max
    /\ \A t \in pendingRequests \cup posts : t.deadline > now
    /\ now' = now + 1
    /\ UNCHANGED <<muxState, supVars, adVars, serverVars>>

(* The adapter is started once. *)
AdapterStartCall == ~stopped /\ \E type \in BackendTypes : AdapterStart(type)

SendCall == \E sequence \in 1..MaxSends : SendToBackend(sequence)

HttpResponses == \E post \in posts, ok \in BOOLEAN : HttpResponse(post, ok)

HttpTimeouts == \E post \in posts : HttpTimeout(post)

WebSocketMessages == \E sequence \in 1..MaxSends : WebSocketMessage(sequence)

ResponseTimerFires == \E t \in pendingRequests : ResponseTimer(t)

(* The adapter sending to the backend. *)
NextSend ==
    \/ AdapterStartCall
    \/ SendCall
    \/ HttpResponses
    \/ HttpTimeouts
    \/ WebSocketMessages
    \/ ResponseTimerFires
    \/ AdapterStop
    \/ AdapterTick(MaxSendClock)

SpecSend == Init /\ [][NextSend]_vars

(* The adapter reading stdin while it is started and stopped. *)
NextShutdown ==
    \/ AdapterStartCall
    \/ AdapterStop
    \/ ClientWrite
    \/ StdinChunk

SpecShutdown == Init /\ [][NextShutdown]_vars

(* ------------------------------ claims -------------------------------- *)

AnyId == {NoId} \cup MsgIds

(* The envelopes of session s that were handed to the transport and whose *)
(* send was not rejected.                                                 *)
Delivered(s) == SelectSeq(wire[s], LAMBDA e : <<s, e.sequence>> \notin failed)

(* The timers armed for request id of session s. *)
TimersOf(s, id) == {t \in timers : t[1] = s /\ t[2] = id}

\* C1: for every live session, backpressure is true exactly when
\* flowControlWindow <= 0.
C1_BackpressureIffWindowExhausted ==
    \A s \in sessions : heap[s].backpressure <=> (heap[s].flowControlWindow <= 0)

\* C1 witness: a live session is backpressured again after a response relieved it
\* and the flush sent a message that had been queued.
C1_Witness ==
    \E s \in sessions :
        /\ heap[s].backpressure
        /\ heap[s].flowControlWindow = 0
        /\ heap[s].lastSequence >= 2
        /\ wire[s][2].payload.n \in queued
        /\ sentToClient >= 1

\* C2: for every live session, 0 <= flowControlWindow <= the configured window
\* size, whatever message is routed to the client.
C2_WindowWithinConfiguredSize ==
    \A s \in sessions :
        /\ 0 <= heap[s].flowControlWindow
        /\ heap[s].flowControlWindow <= FlowControlWindowSize

\* C3: for each session, the envelopes delivered to the backend carry the
\* sequence numbers 1, 2, 3, ... with no gaps, also when sends fail.
C3_DeliveredSequencesConsecutive ==
    \A s \in SessionIds :
        \A i \in 1..Len(Delivered(s)) : Delivered(s)[i].sequence = i

\* C4: the messages of a session that were queued under backpressure are handed
\* to the transport in the order in which they were queued.
C4_QueuedMessagesSentInFifoOrder ==
    \A s \in SessionIds :
        \A i, j \in 1..Len(wire[s]) :
            ( /\ i < j
              /\ wire[s][i].payload.n \in queued
              /\ wire[s][j].payload.n \in queued )
            => wire[s][i].payload.n < wire[s][j].payload.n

\* C5: createSession succeeds exactly when fewer than maxConcurrentSessions
\* sessions are live; otherwise it throws 'Maximum concurrent sessions exceeded'
\* and leaves the session table unchanged; the number of live sessions never
\* exceeds the cap.
C5_SessionCapEnforced ==
    /\ [](Cardinality(sessions) <= MaxConcurrentSessions)
    /\ [][CreateSession(MaxSessionIds) =>
            IF Cardinality(sessions) < MaxConcurrentSessions
            THEN /\ nextSessionId \notin sessions
                 /\ sessions' = sessions \cup {nextSessionId}
                 /\ lastError' = lastError
            ELSE /\ sessions' = sessions
                 /\ heap' = heap
                 /\ lastError' = "MaxSessionsExceeded"]_vars

\* C5 witness: the cap was reached, a further createSession was refused, a
\* session was destroyed and the next createSession succeeded.
C5_Witness ==
    /\ Cardinality(sessions) = MaxConcurrentSessions
    /\ nextSessionId = MaxConcurrentSessions + 2
    /\ lastError = "MaxSessionsExceeded"
    /\ \E s \in SessionIds : destroyed[s] = 1

\* C6: when a response with id X is routed to session s while a request X of s
\* is outstanding, the pending entry and the routing entry of that request are
\* removed and no timer armed for it stays armed, so that no 'Request timeout
\* for message X' can be emitted for it afterwards.
C6_ResponseClearsRequestTimer ==
    [][\A s \in sessions, id \in MsgIds, ok \in BOOLEAN :
          (RouteToClient(s, id, ok) /\ transportAdapter /\ TimersOf(s, id) # {}) =>
              /\ TimersOf(s, id) \cap timers' = {}
              /\ \/ heap'[s].pendingRequests[id] = NoTimer
                 \/ heap'[s].pendingRequests[id] > heap[s].lastSequence
              /\ \/ messageRoutes'[id] = NoSession
                 \/ heap'[s].lastSequence > heap[s].lastSequence]_vars

\* C7: routeToBackend on a backpressured session appends the message to the tail
\* of the session's queue and changes nothing else except lastActivity.
C7_BackpressuredSendOnlyQueues ==
    [][\A s \in sessions, id \in AnyId :
          (RouteToBackend(s, id) /\ transportAdapter /\ heap[s].backpressure) =>
              /\ heap'[s] = [heap[s] EXCEPT
                               !.messageQueue = @ \o <<[id |-> id, n |-> nextMessage + 1]>>,
                               !.lastActivity = now]
              /\ \A o \in SessionIds \ {s} : heap'[o] = heap[o]
              /\ wire' = wire
              /\ inflight' = inflight
              /\ messageRoutes' = messageRoutes
              /\ timers' = timers
              /\ sessions' = sessions
              /\ errorEvents' = errorEvents
              /\ lastError' = lastError]_vars

\* C7 witness: a request with an id sits at the tail of a backpressured session's
\* queue, and nothing is tracked for that id.
C7_Witness ==
    \E s \in sessions :
        /\ heap[s].backpressure
        /\ Len(heap[s].messageQueue) >= 1
        /\ heap[s].messageQueue[Len(heap[s].messageQueue)].id \in MsgIds
        /\ \A i \in MsgIds : heap[s].pendingRequests[i] = NoTimer
        /\ \A i \in MsgIds : messageRoutes[i] = NoSession

\* C8: when sendToBackend fails inside routeToBackend the call rejects with a
\* SessionError and the credit the call consumed is given back: the window goes
\* up by one and backpressure is recomputed as window <= 0.
C8_FailedSendRestoresCredit ==
    [][\A f \in inflight :
          SendSettles(f, FALSE) =>
              LET s == f.sessionId IN
              /\ heap'[s].flowControlWindow + Len(wire'[s])
                   = heap[s].flowControlWindow + Len(wire[s]) + 1
              /\ heap'[s].backpressure = (heap'[s].flowControlWindow <= 0)
              /\ IF f.flush
                 THEN <<"QueuedSendFailed", s, f.id>> \in errorEvents'
                 ELSE /\ lastError' = "RouteToBackendFailed"
                      /\ heap'[s].flowControlWindow = heap[s].flowControlWindow + 1]_vars

\* C8 witness: the only send of a live session was rejected and the session's
\* window is back at the configured size, without backpressure.
C8_Witness ==
    \E s \in sessions :
        /\ <<s, 1>> \in failed
        /\ heap[s].lastSequence = 1
        /\ sentToClient = 0
        /\ lastError = "RouteToBackendFailed"
        /\ heap[s].flowControlWindow = FlowControlWindowSize
        /\ ~heap[s].backpressure

\* C9: after destroySession(id) on a live session the session is absent from the
\* table, no routing entry points to it, exactly one destroyed event was emitted
\* and no pending-request timeout of that session fires any more.
C9_DestroyedSessionLeavesNothing ==
    /\ [](\A s \in SessionIds :
            destroyed[s] > 0 =>
                /\ s \notin sessions
                /\ \A i \in MsgIds : messageRoutes[i] # s
                /\ destroyed[s] = 1)
    /\ [][\A t \in timers : RequestTimeout(t) => destroyed[t[1]] = 0]_vars

\* C10: every routing-table entry id -> s refers to a live session s with id in
\* s.pendingRequests, and routing a message to one session never removes or
\* redirects an entry owned by another session.
C10_RoutingEntriesOwnedAndOutstanding ==
    /\ [](\A i \in MsgIds :
            messageRoutes[i] # NoSession =>
                /\ messageRoutes[i] \in sessions
                /\ heap[messageRoutes[i]].pendingRequests[i] # NoTimer)
    /\ [][\A s \in sessions, id \in AnyId, ok \in BOOLEAN :
            (RouteToBackend(s, id) \/ RouteToClient(s, id, ok)) =>
                \A i \in MsgIds :
                    (messageRoutes[i] # NoSession /\ messageRoutes[i] # s)
                        => messageRoutes'[i] = messageRoutes[i]]_vars

\* C11: when the transport emits an inbound envelope without a sessionId, the
\* payload is delivered to the session the routing table records for the
\* payload's id; if the payload has no id or the id is not in the table, nothing
\* is delivered, no session's window or queue changes, and exactly one 'Unable
\* to route inbound message' error is emitted.
C11_UnaddressedInboundRoutedByTable ==
    [][\A id \in AnyId, ok \in BOOLEAN :
          HandleInboundMessage(NoSession, id, ok) =>
              IF id # NoId /\ messageRoutes[id] # NoSession
              THEN LET target == messageRoutes[id]
                       st == RouteToClientSync(Cur, target, id) IN
                   /\ target \in sessions
                   /\ sentToClient' = sentToClient + 1
                   /\ unroutable' = unroutable
                   /\ heap' = st.heap
                   /\ heap'[target].flowControlWindow + Len(wire'[target])
                        = heap[target].flowControlWindow + Len(wire[target]) + 1
                   /\ \A o \in SessionIds \ {target} : heap'[o] = heap[o]
                   /\ messageRoutes'[id] \in {NoSession, target}
              ELSE /\ sentToClient' = sentToClient
                   /\ unroutable' = unroutable + 1
                   /\ heap' = heap
                   /\ wire' = wire
                   /\ messageRoutes' = messageRoutes
                   /\ timers' = timers
                   /\ errorEvents' = errorEvents]_vars

\* C11 witness: a request with an id was sent, its unaddressed response was
\* delivered through the routing table, and a later unaddressed message was
\* reported as unroutable while the session is still live.
C11_Witness ==
    /\ unroutable = 1
    /\ sentToClient = 1
    /\ \A i \in MsgIds : messageRoutes[i] = NoSession
    /\ \E s \in sessions :
          /\ Len(wire[s]) = 1
          /\ wire[s][1].payload.id \in MsgIds
          /\ heap[s].flowControlWindow = FlowControlWindowSize

\* C12: destroyed is terminal: a destroyed session's id never becomes live
\* again, and every later routeToBackend or routeToClient for it, also the
\* sends of messages that were held by a flush when it was destroyed, rejects
\* with 'Session not found', hands nothing to the transport and changes neither
\* the routing table nor any other session.
C12_DestroyedIsTerminal ==
    /\ [](\A s \in SessionIds : destroyed[s] > 0 => s \notin sessions)
    /\ [][\A s \in SessionIds, id \in AnyId, ok \in BOOLEAN :
            (destroyed[s] > 0 /\ (RouteToBackend(s, id) \/ RouteToClient(s, id, ok))) =>
                /\ lastError' = "SessionNotFound"
                /\ wire' = wire
                /\ inflight' = inflight
                /\ sentToClient' = sentToClient
                /\ messageRoutes' = messageRoutes
                /\ heap' = heap
                /\ timers' = timers]_vars
    /\ [][\A f \in inflight, ok \in BOOLEAN :
            (destroyed[f.sessionId] > 0 /\ f.flush /\ SendSettles(f, ok)) =>
                /\ wire' = wire
                /\ inflight' = inflight \ {f}
                /\ messageRoutes' = messageRoutes
                /\ \A o \in SessionIds \ {f.sessionId} : heap'[o] = heap[o]
                /\ IF heap'[f.sessionId].backpressure
                   THEN heap'[f.sessionId].messageQueue
                          = f.rest \o heap[f.sessionId].messageQueue
                   ELSE \A i \in 1..Len(f.rest) :
                          <<"QueuedSessionNotFound", f.sessionId, f.rest[i].id>>
                              \in errorEvents']_vars

\* C12 witness: a session was destroyed while a flush held a queued message; the
\* flush's send failed, the held message was then refused for the destroyed
\* session, and a later call for that id was refused as well.
C12_Witness ==
    \E s \in SessionIds :
        /\ destroyed[s] = 1
        /\ s \notin sessions
        /\ <<"QueuedSessionNotFound", s, NoId>> \in errorEvents
        /\ <<"QueuedSendFailed", s, NoId>> \in errorEvents
        /\ lastError = "SessionNotFound"
        /\ Len(wire[s]) = 2
        /\ inflight = {}

\* C13: destroySession on an id that is not a live session (never created, or
\* already destroyed) changes no state and emits no event; destroying an id
\* twice leaves the single destroyed event of destroying it once.
C13_DestroyUnknownIsNoOp ==
    /\ [](\A s \in SessionIds : destroyed[s] <= 1)
    /\ [][\A s \in SessionIds :
            (s \notin sessions /\ DestroySession(s)) => UNCHANGED vars]_vars

\* C13 witness: one session was destroyed while a request of it was outstanding,
\* and another id was never created: destroySession is enabled for both.
C13_Witness ==
    \E s \in SessionIds :
        /\ destroyed[s] = 1
        /\ s \notin sessions
        /\ Len(wire[s]) = 1
        /\ nextSessionId = s + 1
        /\ nextSessionId \in SessionIds
        /\ ENABLED DestroySession(s)
        /\ ENABLED DestroySession(nextSessionId)

\* C14: each sweep destroys exactly the sessions whose idle time (now -
\* lastActivity) exceeds sessionIdleTimeout, with a destroyed event and their
\* routing entries purged; a session that routed a message within the timeout
\* is never destroyed by the sweep; a session that stays idle is eventually
\* destroyed without an explicit disconnect.
C14_SweepDestroysExactlyIdleSessions ==
    /\ [][CleanupIdleSessions =>
            \A s \in sessions :
                IF now - heap[s].lastActivity > SessionIdleTimeout
                THEN /\ s \notin sessions'
                     /\ destroyed'[s] = destroyed[s] + 1
                     /\ \A i \in MsgIds : messageRoutes'[i] # s
                ELSE /\ s \in sessions'
                     /\ destroyed'[s] = destroyed[s]
                     /\ \A i \in MsgIds :
                           messageRoutes[i] = s => messageRoutes'[i] = s]_vars
    /\ [][\A s \in sessions :
            s \notin sessions' => now - heap[s].lastActivity > SessionIdleTimeout]_vars
    /\ \A s \in SessionIds :
          \A t \in 0..(LastInputTime + SessionIdleTimeout + 1) :
            (s \in sessions /\ heap[s].lastActivity = t)
                ~> (s \notin sessions \/ heap[s].lastActivity > t)

\* C14 witness: a session with an outstanding request was destroyed by the
\* sweep as soon as its idle time exceeded the timeout, after it had routed a
\* message at a later time than its creation.
C14_Witness ==
    \E s \in SessionIds :
        /\ destroyed[s] = 1
        /\ s \notin sessions
        /\ heap[s].lastActivity > 0
        /\ now = heap[s].lastActivity + SessionIdleTimeout + 1
        /\ Len(wire[s]) = 1
        /\ wire[s][1].payload.id \in MsgIds
        /\ \A i \in MsgIds : messageRoutes[i] = NoSession

\* C15: start(cfg) rejects with the conflict ProcessError exactly when a lock
\* record exists and the pid it names is alive; then no child is spawned, the
\* lock record stays and the status is unchanged.  A record whose pid is dead is
\* removed and start proceeds as without a lock, writing its own record when it
\* spawns.
C15_StartConflictIffLiveLock ==
    /\ [][\A p \in Supervisors, cfg \in PlainConfigs(RestartPolicies) :
            StartCheck(p, cfg) =>
                /\ (startCheck'[p] = "conflict")
                      <=> (lockFile # NoLock /\ supAlive[lockFile])
                /\ lockFile' = IF startCheck'[p] = "conflict" THEN lockFile ELSE NoLock
                /\ status' = status
                /\ children' = children]_vars
    /\ [][\A p \in Supervisors :
            StartProceed(p) =>
                IF startCheck[p] = "conflict"
                THEN /\ startResult'[p] = "conflict"
                     /\ children' = children
                     /\ process' = process
                     /\ lockFile' = lockFile
                     /\ status' = status
                ELSE /\ startResult'[p] # "conflict"
                     /\ process[p] = NoChild =>
                           /\ lockFile' = p
                           /\ status'[p] = "starting"
                           /\ process'[p] \notin {x.id : x \in children}
                           /\ \E x \in children' : x.id = process'[p] /\ x.owner = p]_vars

\* C15 witness: one supervisor holds the lock and a child; the start of the
\* other one was refused with the conflict and left it stopped.
C15_Witness ==
    \E p, q \in Supervisors :
        /\ p # q
        /\ supAlive[p]
        /\ lockFile = p
        /\ process[p] # NoChild
        /\ startResult[q] = "conflict"
        /\ status[q] = "stopped"
        /\ process[q] = NoChild
        /\ Cardinality(children) = 1

(* Supervisor p owns a backend child that is starting or running. *)
OwnsBackend(p) ==
    /\ supAlive[p]
    /\ process[p] # NoChild
    /\ status[p] \in {"starting", "running"}

\* C16: single active instance: of two supervisors that share the lock path, at
\* no time do both own a starting or running backend child.
C16_SingleActiveInstance ==
    \A p, q \in Supervisors : p # q => ~(OwnsBackend(p) /\ OwnsBackend(q))

(* A restart of supervisor p waits for its backoff, which ends within     *)
(* the time that is observed.                                             *)
RestartPending(p) ==
    \E t \in supTimers : t.sup = p /\ t.kind = "backoff" /\ t.deadline <= MaxClock

(* attemptRestart goes on to its sleep: the policy allows a restart and   *)
(* the cap is not reached.                                                *)
RestartAllowed(p) ==
    config[p].restartPolicy # "never" /\ restartCount[p] < MaxRestartAttempts

(* C17: when a child exits while the status of its supervisor is not      *)
(* 'stopping', the status becomes 'crashed' with isHealthy false and      *)
(* exactly one crash event is emitted; if the policy is not 'never' and   *)
(* restartCount < maxRestartAttempts a backoff is armed, after which the  *)
(* supervisor that holds no child is back to 'starting' with a new child, *)
(* and it is 'running' when that child is still held at the end of the    *)
(* stabilization delay.                                                   *)
C17_CrashReportedThenRestarted ==
    /\ [][\A c \in children :
             (ChildExits(c) /\ supAlive[c.owner] /\ status[c.owner] # "stopping")
             => /\ status'[c.owner] = "crashed"
                /\ ~isHealthy'[c.owner]
                /\ crashEvents'[c.owner] = crashEvents[c.owner] + 1
                /\ RestartAllowed(c.owner)
                   => /\ restartCount'[c.owner] = restartCount[c.owner] + 1
                      /\ \E t \in supTimers' \ supTimers :
                            /\ t.sup = c.owner /\ t.kind = "backoff"
                            /\ t.deadline > now]_vars
    /\ [][\A t \in supTimers :
             (BackoffTimer(t) /\ process[t.sup] = NoChild)
             => /\ status'[t.sup] = "starting"
                /\ process'[t.sup] = nextChild
                /\ \E c \in children' \ children : c.id = nextChild /\ c.owner = t.sup]_vars
    /\ [][\A t \in supTimers :
             (ReadyTimer(t) /\ t.caller = "attemptRestart" /\ process[t.sup] = t.n)
             => status'[t.sup] = "running"]_vars
    /\ \A p \in Supervisors :
          (RestartPending(p) /\ process[p] = NoChild) ~> (status[p] = "starting")

(* The first child crashed, the restart ran after its backoff, and the    *)
(* second child was still held at the end of the stabilization delay.     *)
C17_Witness ==
    /\ status[1] = "running" /\ process[1] = 2
    /\ crashEvents[1] = 1 /\ restartCount[1] = 1 /\ startedEvents[1] = 2

(* C18: Scenario A.  A supervisor is started with no health URL and its   *)
(* child exits 1 s after being spawned, nothing having stopped it: by     *)
(* then start() has resolved, the started event is emitted and the status *)
(* is 'running'; the exit makes it 'crashed' and arms a restart with a    *)
(* backoff of 2 s.                                                        *)
C18_ScenarioA ==
    [][\A c \in children :
          (/\ ChildExits(c) /\ supAlive[c.owner]
           /\ c.id = 1 /\ process[c.owner] = c.id /\ ~c.killed
           /\ now = c.spawnedAt + 1)
          => /\ status[c.owner] = "running"
             /\ startResult[c.owner] = "resolved"
             /\ startedEvents[c.owner] = 1
             /\ status'[c.owner] = "crashed"
             /\ RestartAllowed(c.owner)
                => \E t \in supTimers' \ supTimers :
                      t.kind = "backoff" /\ t.deadline = now + 2]_vars

(* C19: restartCount never exceeds maxRestartAttempts, no more children   *)
(* are spawned than start() calls plus maxRestartAttempts restarts, and a *)
(* crash at the cap leaves the status 'crashed', emits the crash event,   *)
(* arms no restart and spawns nothing.                                    *)
C19_RestartsAreCapped ==
    /\ [](\A p \in Supervisors : restartCount[p] <= MaxRestartAttempts)
    /\ [](nextChild - 1 <= starts + restartCount[1] + restartCount[2])
    /\ [][\A t \in supTimers' \ supTimers :
             t.kind = "backoff"
             => restartCount'[t.sup] = restartCount[t.sup] + 1]_vars
    /\ [][\A c \in children :
             (/\ ChildExits(c) /\ supAlive[c.owner]
              /\ status[c.owner] # "stopping"
              /\ restartCount[c.owner] = MaxRestartAttempts)
             => /\ status'[c.owner] = "crashed"
                /\ crashEvents'[c.owner] = crashEvents[c.owner] + 1
                /\ restartCount' = restartCount
                /\ supTimers' \subseteq supTimers
                /\ children' = children \ {c}
                /\ nextChild' = nextChild
                /\ process'[c.owner] = NoChild]_vars

(* Every allowed restart was made and its child crashed too: the crash at *)
(* the cap is reported and nothing is left to restart.                    *)
C19_Witness ==
    /\ restartCount[1] = MaxRestartAttempts
    /\ crashEvents[1] = MaxRestartAttempts + 1
    /\ status[1] = "crashed" /\ process[1] = NoChild
    /\ children = {} /\ \A t \in supTimers : t.kind # "backoff"

(* C20: the backoff armed by a crash is 2^restartCount seconds with the   *)
(* count after its increment, 2 s for the first attempt and twice the     *)
(* previous delay for each further one, and the restart does not run      *)
(* before that delay has passed.                                          *)
C20_BackoffDoubles ==
    /\ [][\A t \in supTimers' \ supTimers :
             t.kind = "backoff"
             => /\ t.n = restartCount'[t.sup]
                /\ t.n = restartCount[t.sup] + 1
                /\ t.dur = 2 ^ t.n
                /\ t.deadline = now + t.dur]_vars
    /\ [][\A t \in supTimers :
             BackoffTimer(t) => now >= t.deadline /\ t.deadline - t.dur >= 0]_vars

(* The second restart attempt waits 4 s, after a first that waited 2 s    *)
(* and whose child crashed as well.                                       *)
C20_Witness ==
    /\ restartCount[1] = 2 /\ crashEvents[1] = 2
    /\ \E t \in supTimers :
          /\ t.sup = 1 /\ t.kind = "backoff" /\ t.n = 2
          /\ t.dur = 4 /\ t.deadline - t.dur >= 2

(* stop() of supervisor p returns in this step: a forced stop or a stop   *)
(* with no child at once, a graceful stop when the child it waits for     *)
(* exits or when its grace period ends.                                   *)
StopReturns(p) ==
    \/ \E force \in BOOLEAN : Stop(p, force) /\ (force \/ process[p] = NoChild)
    \/ \E c \in children :
          /\ ChildExits(c) /\ c.owner = p /\ supAlive[p]
          /\ \E t \in supTimers : t.sup = p /\ t.kind = "grace" /\ t.n = c.id
    \/ \E t \in supTimers : GraceTimer(t) /\ t.sup = p

(* C21: when stop(force) returns the idle timer is cancelled, the lock    *)
(* record is removed, the supervisor holds no child, and the status is    *)
(* 'stopped', or 'stopping' until the exit of the child is observed.      *)
C21_StopReleasesEverything ==
    [][\A p \in Supervisors :
          StopReturns(p)
          => /\ idleTimer'[p] = NoDeadline
             /\ lockFile' = NoLock
             /\ process'[p] = NoChild
             /\ \/ status'[p] = "stopped"
                \/ /\ status'[p] = "stopping"
                   /\ \E c \in children' : c.owner = p /\ c.killed]_vars

(* C22: once stop() has completed (the status is 'stopped'), only an      *)
(* explicit start() spawns a child or moves the status to 'starting' or   *)
(* 'running', also when a crash had armed a restart backoff before.       *)
C22_StopCancelsBackoff ==
    [][\A p \in Supervisors :
          (status[p] = "stopped" /\ ~StartProceed(p))
          => /\ status'[p] \notin {"starting", "running"}
             /\ process'[p] = NoChild
             /\ \A c \in children' \ children : c.owner # p]_vars

(* C23: with a health URL, when the probe has not succeeded by the        *)
(* startup timeout, start rejects, the status is not 'running', no        *)
(* started event is emitted, neither the health-check interval nor the    *)
(* idle timer is armed, the lock record is removed, and the child that    *)
(* was spawned is not left running.                                       *)
C23_StartupTimeoutLeavesNothing ==
    [][\A t \in supTimers :
          (StartupTimeout(t) /\ t.caller = "start" /\ process[t.sup] = t.n)
          => /\ startResult'[t.sup] = "failed"
             /\ status'[t.sup] # "running"
             /\ startedEvents' = startedEvents
             /\ healthCheckInterval'[t.sup] = NoInterval
             /\ idleTimer'[t.sup] = NoDeadline
             /\ lockFile' = NoLock
             /\ \A c \in children' : c.id = t.n => c.killed]_vars

(* A timer that belongs to an automatic restart: the backoff of           *)
(* attemptRestart, or the stop and the pause inside restart().            *)
IsRestartTimer(t) ==
    t.kind \in {"backoff", "pause"} \/ (t.kind = "grace" /\ t.caller = "restart")

C25_IdleTimerStopsAfterTimeout ==
    /\ [][\A p \in Supervisors :
             (IdleTimer(p) /\ status[p] = "running")
             => /\ now - lastActivity[p] >= config[p].idleTimeout
                /\ now >= idleTimer[p]
                /\ status'[p] = "stopping"
                /\ \A c \in children' : c.id = process[p] => c.killed]_vars
    /\ [][\A p \in Supervisors :
             UpdateActivity(p)
             => /\ lastActivity'[p] = now
                /\ idleTimer'[p] = now + config[p].idleTimeout]_vars
    /\ [](\A p \in Supervisors :
             (status[p] = "running" /\ idleTimer[p] # NoDeadline)
             => idleTimer[p] >= lastActivity[p] + config[p].idleTimeout)
    /\ [](crashEvents[1] = 0 /\ restartCount[1] = 0 /\ nextChild <= starts + 1)
    /\ (status[1] = "running" /\ now > LastActivityTime) ~> (status[1] = "stopped")

(* updateActivity() at second 3 moved the idle timer from second 5 to     *)
(* second 6, where it fired and stopped the supervisor: the child has     *)
(* exited and the status is 'stopped' with one stopped event.             *)
C25_Witness ==
    /\ lastActivity[1] = LastActivityTime /\ now = LastActivityTime + ShortIdleTimeout
    /\ status[1] = "stopped" /\ stoppedEvents[1] = 1 /\ startedEvents[1] = 1
    /\ children = {} /\ crashEvents[1] = 0

(* C26: whatever the chunks, the adapter has emitted the events, keeps    *)
(* the incomplete line and has the sequence counter that it would have    *)
(* after receiving the same characters in one chunk; only lines whose     *)
(* newline has arrived are processed, and the retained text holds no      *)
(* newline.                                                               *)
C26_FramingIgnoresChunking ==
    /\ StdioCur = HandleStdinData(StdioNew, received)
    /\ \A i \in 1..Len(messageBuffer) : messageBuffer[i] # NL
    /\ \E n \in 0..Len(received) :
          /\ messageBuffer = SubSeq(received, n + 1, Len(received))
          /\ n > 0 => received[n] = NL

(* A stream of two messages and the beginning of a third was delivered:   *)
(* both envelopes are out and the incomplete line is retained.            *)
C26_Witness ==
    /\ Len(adapterEvents) = 2 /\ outboundSequence = 2
    /\ messageBuffer = <<"{", "m">>
    /\ pipe = <<>>

(* The complete non-blank lines of a text, trimmed. *)
CompleteLines(text) ==
    LET lines == Split(text)
        Trimmed(i) == Trim(lines[i])
    IN SelectSeq([i \in 1..(Len(lines) - 1) |-> Trimmed(i)], LAMBDA line : line # <<>>)

(* A line that parses as a JSON object with a string method or an own     *)
(* result or an own error.                                                *)
IsMessageLine(line) ==
    LET obj == JsonParse(line)
    IN /\ obj.ok /\ obj.type = "object"
       /\ HasMethod(obj) \/ HasMember(obj, "r") \/ HasMember(obj, "e")

(* One event per line: an envelope with the next sequence number for a    *)
(* message line, an error for any other.                                  *)
RECURSIVE EventsOfLines(_, _)
EventsOfLines(lines, sequence) ==
    IF lines = <<>> THEN <<>>
    ELSE IF IsMessageLine(Head(lines))
    THEN <<[type |-> "message.outbound", sequence |-> sequence + 1,
            payload |-> JsonParse(Head(lines)).members]>>
         \o EventsOfLines(Tail(lines), sequence + 1)
    ELSE <<[type |-> "error", sequence |-> 0, payload |-> <<>>]>>
         \o EventsOfLines(Tail(lines), sequence)

(* C27: the events emitted are, in input order, one envelope for every    *)
(* complete non-blank line that is a JSON object with a string method or  *)
(* an own result or error, numbered 1, 2, 3, ..., and one error for every *)
(* other complete non-blank line; the counter counts the envelopes.       *)
C27_EnvelopesAreTheMessageLines ==
    /\ adapterEvents = EventsOfLines(CompleteLines(received), 0)
    /\ outboundSequence =
          Len(SelectSeq(adapterEvents, LAMBDA e : e.type = "message.outbound"))

(* A 'Request timeout for sequence n' error was emitted. *)
TimedOut(sequence) ==
    \E i \in 1..Len(adapterEvents) :
        adapterEvents[i].type = "timeout" /\ adapterEvents[i].sequence = sequence

(* The response to the request arrived within the response timeout. *)
AnsweredInTime(r) ==
    r.answeredAt # Never /\ r.answeredAt < r.sentAt + ShortResponseTimeout

TimeoutIffNoResponse(r) ==
    /\ TimedOut(r.sequence) => ~AnsweredInTime(r)
    /\ (~AnsweredInTime(r) /\ now > r.sentAt + ShortResponseTimeout) => TimedOut(r.sequence)

(* C28: while the adapter has not been stopped, a timeout error for a     *)
(* request sent has been emitted only if no response arrived within the   *)
(* response timeout, and has been emitted once the timeout has passed     *)
(* without one; over HTTP an answered request never times out; the timer  *)
(* callback sends nothing.                                                *)
C28_TimeoutIffNoResponse ==
    /\ [](~stopped =>
            \A r \in requests :
                /\ TimeoutIffNoResponse(r)
                /\ (backendType = "http" /\ r.answeredAt # Never) => ~TimedOut(r.sequence))
    /\ [][ResponseTimerFires => UNCHANGED <<posts, requests>>]_vars

(* C29: once stop() has returned no response timer is armed, and no       *)
(* timeout error is emitted any more.                                     *)
C29_NoTimerAfterStop ==
    /\ [](stopped => pendingRequests = {})
    /\ [][stopped => ~ResponseTimerFires]_vars

(* C30: once stop() has returned, stdin data produces no envelope and no  *)
(* error event and leaves the sequence counter as it is.                  *)
C30_NoStdinAfterStop ==
    [][(stopped /\ StdinChunk) => UNCHANGED <<adapterEvents, outboundSequence>>]_vars

(* The children that supervisor p spawned and that have not exited. *)
LiveChildren(p) == {c \in children : c.owner = p}

(* C35: a supervisor has at most one live child that it spawned, and it   *)
(* holds the handle of every live child that it spawned.                  *)
C35_OneLiveChildHeld ==
    \A p \in Supervisors :
        /\ Cardinality(LiveChildren(p)) <= 1
        /\ \A c \in LiveChildren(p) : process[p] = c.id

(* C36: the exit of a child that stop() signalled produces no crash       *)
(* event, leaves restartCount as it is and schedules no restart.          *)
C36_StoppedChildIsNoCrash ==
    [][\A c \in children :
          (c.killed /\ ChildExits(c)) =>
              /\ crashEvents' = crashEvents
              /\ restartCount' = restartCount
              /\ \A t \in supTimers' \ supTimers : ~IsRestartTimer(t)]_vars

(* C37: the envelopes of a session were handed to the transport in the    *)
(* order in which routeToBackend was called for their messages.           *)
C37_TransportOrderIsSubmissionOrder ==
    \A s \in SessionIds :
        \A i, j \in 1..Len(wire[s]) :
            i < j => wire[s][i].payload.n < wire[s][j].payload.n

(* Message n of session s is on the session's queue or held by a flush    *)
(* in progress.                                                           *)
Waiting(s, n) ==
    /\ s \in sessions
    /\ \/ \E i \in 1..Len(heap[s].messageQueue) : heap[s].messageQueue[i].n = n
       \/ \E f \in inflight :
             f.sessionId = s /\ \E i \in 1..Len(f.rest) : f.rest[i].n = n

(* C38: when every request sent completes by a routed response or a send  *)
(* failure, a message queued under backpressure is eventually handed to   *)
(* the transport, unless its session is destroyed; in particular the      *)
(* queue is drained whenever credit returns, so that a queue is left only *)
(* on a session under backpressure.                                       *)
C38_QueuedMessageEventuallySent ==
    /\ [](\A s \in sessions :
             heap[s].messageQueue # <<>> => heap[s].backpressure)
    /\ \A s \in SessionIds, n \in 1..MaxDrainMessages :
           Waiting(s, n) ~> ~Waiting(s, n)

(* C39: when the send of a message with an id is rejected, the timer      *)
(* armed for that send is no longer armed, the session's pendingRequests  *)
(* no longer holds it, and the routing table keeps the id only for        *)
(* another request of the session that is tracked under it.               *)
C39_FailedSendLeavesNoState ==
    [][\A f \in inflight :
          (SendSettles(f, FALSE) /\ f.id # NoId) =>
              LET s == f.sessionId IN
              /\ <<s, f.id, f.sequence>> \notin timers'
              /\ heap'[s].pendingRequests[f.id] # f.sequence
              /\ messageRoutes'[f.id] = s =>
                    heap'[s].pendingRequests[f.id] \notin {NoTimer, f.sequence}]_vars

(* Session s is live and backpressured while none of its sends is in      *)
(* flight and none of its requests is outstanding.                        *)
Starved(s) ==
    /\ s \in sessions
    /\ heap[s].backpressure
    /\ \A f \in inflight : f.sessionId # s
    /\ \A id \in MsgIds : heap[s].pendingRequests[id] = NoTimer

(* C40: a request timer that fires without a response returns the credit  *)
(* of its request, and a live session does not stay backpressured for     *)
(* ever while none of its requests is outstanding.                        *)
C40_CreditEventuallyReturned ==
    /\ [][\A t \in timers :
             (RequestTimeout(t) /\ t[1] \in sessions
                /\ heap[t[1]].pendingRequests[t[2]] = t[3]) =>
                 heap'[t[1]].flowControlWindow = heap[t[1]].flowControlWindow + 1]_vars
    /\ \A s \in SessionIds : Starved(s) ~> ~Starved(s)

(***************************************************************************)
(* The gateway, src/src/core/ShimMCPServer.ts.  start() constructs a       *)
(* supervisor, a multiplexer and a transport adapter, wires them and       *)
(* starts them; every await of start() is a step.  The objects are records *)
(* of the fields the gateway reads.  start() calls are made one after the  *)
(* other: a call is made when no start() or stop() is in progress.         *)
(***************************************************************************)
DefaultMaxConcurrentSessions == 50

\* The configurations passed to start(): with or without a backend
\* command; maxConcurrentSessions negative, unset (0: both are falsy) or 1.
ServerConfigs == [command : BOOLEAN, maxConcurrentSessions : {0 - 1, 0, 1}]

ValidateAndNormalizeConfig(cfg) ==
    IF ~cfg.command
    THEN [error |-> "BackendCommandRequired", config |-> Undefined]
    ELSE [error |-> "none",
          config |-> [command |-> TRUE,
                      maxConcurrentSessions |->
                          IF cfg.maxConcurrentSessions = 0
                          THEN DefaultMaxConcurrentSessions
                          ELSE cfg.maxConcurrentSessions]]

\* new MCPProcessManager(): no configuration until its start() is called.
InitializeProcessManager ==
    [config |-> Undefined, status |-> "stopped", process |-> FALSE, idleTimer |-> FALSE]

\* new SessionMultiplexerImpl(...) with the gateway's handlers attached.
InitializeSessionMultiplexer(cfg) ==
    [maxConcurrentSessions |-> cfg.maxConcurrentSessions, sessions |-> {},
     transportAdapter |-> Undefined, cleanupInterval |-> TRUE, listeners |-> TRUE]

\* new StdioTransportAdapter(...): the adapter names its own session.
InitializeTransportAdapter(id) ==
    [sessionId |-> id, isStarted |-> FALSE, backendConnected |-> FALSE]

SessionEvent(type, id) == [type |-> type, sessionId |-> id]

\* processManager.updateActivity() reads this.config.idleTimeout.
ServerUpdateActivityThrows(pm) == pm # Undefined /\ pm.config = Undefined

\* multiplexer.createSession(pid) followed by the gateway's SESSION_CREATED
\* handler, which runs inside emit(): what it throws, createSession throws.
ServerCreateSession(m, pm, id) ==
    IF Cardinality(m.sessions) >= m.maxConcurrentSessions
    THEN [multiplexer |-> m, error |-> "MaxSessionsExceeded", events |-> <<>>]
    ELSE [multiplexer |-> [m EXCEPT !.sessions = @ \cup {id}],
          error |-> IF m.listeners /\ ServerUpdateActivityThrows(pm)
                    THEN "TypeError" ELSE "none",
          events |-> IF m.listeners THEN <<SessionEvent("session.created", id)>>
                     ELSE <<>>]

RECURSIVE DestroyedEvents(_)
DestroyedEvents(S) ==
    IF S = {} THEN <<>>
    ELSE LET first == CHOOSE x \in S : \A y \in S : x <= y
         IN <<SessionEvent("session.destroyed", first)>> \o DestroyedEvents(S \ {first})

\* multiplexer.destroy(): every session destroyed, then removeAllListeners.
MultiplexerDestroy(m) ==
    [multiplexer |-> [m EXCEPT !.sessions = {}, !.cleanupInterval = FALSE,
                               !.listeners = FALSE],
     events |-> IF m.listeners THEN DestroyedEvents(m.sessions) ELSE <<>>]

\* adapter.stop(): returns at once when the adapter was not started.
ServerAdapterStop(a) ==
    IF ~a.isStarted THEN a
    ELSE [a EXCEPT !.isStarted = FALSE, !.backendConnected = FALSE]

\* processManager.stop() up to its first await.
ServerProcessManagerStop(pm) ==
    [pm EXCEPT !.idleTimer = FALSE,
               !.status = IF pm.process THEN "stopping" ELSE "stopped"]

GetStatus ==
    [connected |-> IF serverTransportAdapter = Undefined THEN FALSE
                   ELSE serverTransportAdapter.isStarted
                        /\ serverTransportAdapter.backendConnected,
     backend |-> IF serverProcessManager = Undefined THEN "stopped"
                 ELSE serverProcessManager.status,
     sessions |-> IF serverSessionMultiplexer = Undefined THEN {}
                  ELSE serverSessionMultiplexer.sessions]

\* cleanup() up to its await, on the components the gateway holds: both
\* stop() calls are made and destroy() runs.
CleanupSync(a, pm, m) ==
    LET torn == IF m = Undefined THEN [multiplexer |-> Undefined, events |-> <<>>]
                ELSE MultiplexerDestroy(m)
    IN [transportAdapter |-> IF a = Undefined THEN Undefined ELSE ServerAdapterStop(a),
        processManager |-> IF pm = Undefined THEN Undefined
                           ELSE ServerProcessManagerStop(pm),
        sessionMultiplexer |-> torn.multiplexer,
        events |-> torn.events]

ServerStart(cfg) ==
    /\ serverPc = "idle"
    /\ serverStarts < MaxServerStarts
    /\ serverStarts' = serverStarts + 1
    /\ LET valid == ValidateAndNormalizeConfig(cfg)
       IN IF serverIsStarted
          THEN /\ serverResult' = [serverResult EXCEPT !.start = "AlreadyStarted"]
               /\ UNCHANGED <<serverConfig, serverPc, serverCaller, serverProcessManager>>
          ELSE IF valid.error # "none"
          THEN /\ serverResult' = [serverResult EXCEPT !.start = valid.error]
               /\ UNCHANGED <<serverConfig, serverPc, serverCaller, serverProcessManager>>
          ELSE /\ serverConfig' = valid.config
               /\ serverProcessManager' = InitializeProcessManager
               /\ serverPc' = "initializeProcessManager"
               /\ serverCaller' = "start"
               /\ serverResult' = [serverResult EXCEPT !.start = "pending"]
    /\ UNCHANGED <<serverIsStarted, serverError, serverSessionMultiplexer,
                   serverTransportAdapter, serverNextId, serverEvents, stdinListeners,
                   outboundListeners, stdinEnvelopes, muxState, now, supVars, adVars>>

ServerInitializeSessionMultiplexer ==
    /\ serverPc = "initializeProcessManager"
    /\ serverSessionMultiplexer' = InitializeSessionMultiplexer(serverConfig)
    /\ serverPc' = "initializeSessionMultiplexer"
    /\ UNCHANGED <<serverIsStarted, serverConfig, serverCaller, serverError,
                   serverResult, serverStarts, serverProcessManager,
                   serverTransportAdapter, serverNextId, serverEvents, stdinListeners,
                   outboundListeners, stdinEnvelopes, muxState, now, supVars, adVars>>

ServerInitializeTransportAdapter ==
    /\ serverPc = "initializeSessionMultiplexer"
    /\ serverTransportAdapter' = InitializeTransportAdapter(serverNextId)
    /\ serverNextId' = serverNextId + 1
    /\ stdinListeners' = stdinListeners \cup {serverNextId}
    /\ outboundListeners' = outboundListeners @@ (serverNextId :> Undefined)
    /\ serverPc' = "initializeTransportAdapter"
    /\ UNCHANGED <<serverIsStarted, serverConfig, serverCaller, serverError,
                   serverResult, serverStarts, serverProcessManager,
                   serverSessionMultiplexer, serverEvents, stdinEnvelopes, muxState,
                   now, supVars, adVars>>

\* No backend adapter is configured: initializeBackendAdapter returns.
ServerInitializeBackendAdapter ==
    /\ serverPc = "initializeTransportAdapter"
    /\ serverPc' = "initializeBackendAdapter"
    /\ UNCHANGED <<serverIsStarted, serverConfig, serverCaller, serverError,
                   serverResult, serverStarts, serverProcessManager,
                   serverSessionMultiplexer, serverTransportAdapter, serverNextId,
                   serverEvents, stdinListeners, outboundListeners, stdinEnvelopes,
                   muxState, now, supVars, adVars>>

\* wireComponents(): setTransportAdapter, then createSession.  When
\* createSession throws, start() catches and runs cleanup() up to its await.
\* When it does not, start() goes on to processManager.start(); no run of
\* createSession returns (the supervisor has no configuration yet), so that
\* continuation has no action.
ServerWireComponents ==
    /\ serverPc = "initializeBackendAdapter"
    /\ LET wired == [serverSessionMultiplexer EXCEPT
                         !.transportAdapter = serverTransportAdapter]
           created == ServerCreateSession(wired, serverProcessManager, serverNextId)
           clean == CleanupSync(serverTransportAdapter, serverProcessManager,
                                created.multiplexer)
       IN /\ serverNextId' = IF created.error = "MaxSessionsExceeded"
                             THEN serverNextId ELSE serverNextId + 1
          /\ serverError' = created.error
          /\ IF created.error = "none"
             THEN /\ serverSessionMultiplexer' = created.multiplexer
                  /\ serverEvents' = serverEvents \o created.events
                  /\ outboundListeners' =
                         [outboundListeners EXCEPT ![serverTransportAdapter.sessionId] =
                              created.multiplexer]
                  /\ serverPc' = "processManager.start"
                  /\ UNCHANGED <<serverTransportAdapter, serverProcessManager>>
             ELSE /\ serverSessionMultiplexer' = clean.sessionMultiplexer
                  /\ serverEvents' = serverEvents \o created.events \o clean.events
                  /\ outboundListeners' =
                         [outboundListeners EXCEPT ![serverTransportAdapter.sessionId] =
                              clean.sessionMultiplexer]
                  /\ serverTransportAdapter' = clean.transportAdapter
                  /\ serverProcessManager' = clean.processManager
                  /\ serverPc' = "cleanup"
    /\ UNCHANGED <<serverIsStarted, serverConfig, serverCaller, serverResult,
                   serverStarts, stdinListeners, stdinEnvelopes, muxState, now,
                   supVars, adVars>>

\* cleanup() after its await, and the caller's continuation: start() throws
\* START_FAILED with the caught error as its cause, stop() resolves.
ServerCleanupReturns ==
    /\ serverPc = "cleanup"
    /\ serverTransportAdapter' = Undefined
    /\ serverProcessManager' = Undefined
    /\ serverSessionMultiplexer' = Undefined
    /\ serverPc' = "idle"
    /\ serverCaller' = "none"
    /\ serverResult' = IF serverCaller = "start"
                       THEN [serverResult EXCEPT !.start = "StartFailed"]
                       ELSE [serverResult EXCEPT !.stop = "resolved"]
    /\ UNCHANGED <<serverIsStarted, serverConfig, serverError, serverStarts,
                   serverNextId, serverEvents, stdinListeners, outboundListeners,
                   stdinEnvelopes, muxState, now, supVars, adVars>>

ServerStop ==
    /\ IF ~serverIsStarted
       THEN /\ serverResult' = [serverResult EXCEPT !.stop = "resolved"]
            /\ UNCHANGED <<serverIsStarted, serverPc, serverCaller, serverProcessManager,
                           serverSessionMultiplexer, serverTransportAdapter,
                           serverEvents, outboundListeners>>
       ELSE /\ serverPc = "idle"
            /\ serverIsStarted' = FALSE
            /\ LET clean == CleanupSync(serverTransportAdapter, serverProcessManager,
                                         serverSessionMultiplexer)
               IN /\ serverTransportAdapter' = clean.transportAdapter
                  /\ serverProcessManager' = clean.processManager
                  /\ serverSessionMultiplexer' = clean.sessionMultiplexer
                  /\ serverEvents' = serverEvents \o clean.events
                  /\ outboundListeners' =
                         [a \in DOMAIN outboundListeners |->
                             IF outboundListeners[a] = serverSessionMultiplexer
                             THEN clean.sessionMultiplexer ELSE outboundListeners[a]]
            /\ serverPc' = "cleanup"
            /\ serverCaller' = "stop"
            /\ serverResult' = [serverResult EXCEPT !.stop = "pending"]
    /\ UNCHANGED <<serverConfig, serverError, serverStarts, serverNextId,
                   stdinListeners, stdinEnvelopes, muxState, now, supVars, adVars>>

\* What becomes of the envelope adapter a emits for a message line: nobody
\* listens, or the listening multiplexer looks its session up.
EnvelopeOutcome(a) ==
    IF outboundListeners[a] = Undefined THEN "unheard"
    ELSE IF a \in outboundListeners[a].sessions THEN "routed"
    ELSE "SessionNotFound"

\* The client writes a message line: every adapter listening on stdin
\* frames it and emits an envelope under its own session id.
ServerStdinLine ==
    /\ stdinListeners # {}
    /\ Len(stdinEnvelopes) < MaxStdinLines
    /\ stdinEnvelopes' = Append(stdinEnvelopes,
           [started |-> serverIsStarted, pc |-> serverPc,
            envelopes |-> {[sessionId |-> a, outcome |-> EnvelopeOutcome(a)] :
                               a \in stdinListeners}])
    /\ UNCHANGED <<serverIsStarted, serverConfig, serverPc, serverCaller, serverError,
                   serverResult, serverStarts, serverProcessManager,
                   serverSessionMultiplexer, serverTransportAdapter, serverNextId,
                   serverEvents, stdinListeners, outboundListeners, muxState, now,
                   supVars, adVars>>

ServerStartCall == \E cfg \in ServerConfigs : ServerStart(cfg)

NextServer ==
    \/ ServerStartCall
    \/ ServerInitializeSessionMultiplexer
    \/ ServerInitializeTransportAdapter
    \/ ServerInitializeBackendAdapter
    \/ ServerWireComponents
    \/ ServerCleanupReturns
    \/ ServerStop
    \/ ServerStdinLine

SpecServer == Init /\ [][NextServer]_vars

\* C31: in a started gateway the transport adapter's session id is a live
\* session of the multiplexer, and every envelope the adapter emits there is
\* routed under that session; to that end the session wireComponents creates
\* for the transport is the session the transport names.
C31_TransportSessionIsLive ==
    /\ serverIsStarted =>
           /\ serverTransportAdapter # Undefined
           /\ serverSessionMultiplexer # Undefined
           /\ serverTransportAdapter.sessionId \in serverSessionMultiplexer.sessions
    /\ \A i \in DOMAIN stdinEnvelopes :
           stdinEnvelopes[i].started =>
               \A e \in stdinEnvelopes[i].envelopes : e.outcome = "routed"
    /\ \A i \in DOMAIN serverEvents :
           serverEvents[i].type = "session.created" =>
               serverEvents[i].sessionId \in stdinListeners

\* C34: start() with a backend command and maxConcurrentSessions < 1 rejects
\* with 'Max concurrent sessions must be at least 1' before any component
\* is constructed or started, and the gateway is left not started.
C34_RejectsMaxSessionsBelowOne ==
    [][\A cfg \in ServerConfigs :
          (ServerStart(cfg) /\ ~serverIsStarted /\ cfg.command
              /\ cfg.maxConcurrentSessions < 1) =>
              /\ serverResult'.start = "MaxSessionsAtLeastOne"
              /\ serverProcessManager' = Undefined
              /\ serverSessionMultiplexer' = Undefined
              /\ serverTransportAdapter' = Undefined
              /\ ~serverIsStarted']_vars

\* The components and the flag a rejected start() or a stop() that has
\* nothing to stop must leave alone.
ServerComponents == <<serverIsStarted, serverProcessManager, serverSessionMultiplexer,
                      serverTransportAdapter, serverEvents, stdinListeners,
                      outboundListeners>>

StartRejected == serverResult.start = "StartFailed" /\ serverPc = "idle"

\* Every session the gateway announced has been announced destroyed.
SessionsDestroyed ==
    \A i \in DOMAIN serverEvents :
        serverEvents[i].type = "session.created" =>
            \E j \in DOMAIN serverEvents :
                /\ j > i
                /\ serverEvents[j] = SessionEvent("session.destroyed",
                                                  serverEvents[i].sessionId)

\* What a failed start() must leave behind, apart from the transport.
NoResidueButTransport ==
    /\ (serverPc = "cleanup" /\ serverCaller = "start") =>
           /\ serverProcessManager.status = "stopped"
           /\ ~serverProcessManager.idleTimer
           /\ ~serverTransportAdapter.isStarted
    /\ StartRejected =>
           /\ ~serverIsStarted
           /\ serverError # "none"
           /\ serverProcessManager = Undefined
           /\ serverSessionMultiplexer = Undefined
           /\ serverTransportAdapter = Undefined
           /\ SessionsDestroyed
           /\ \A a \in DOMAIN outboundListeners :
                  outboundListeners[a] # Undefined =>
                      /\ outboundListeners[a].sessions = {}
                      /\ ~outboundListeners[a].cleanupInterval
           /\ GetStatus = [connected |-> FALSE, backend |-> "stopped", sessions |-> {}]

\* C32: when a failed start() rejects, the gateway holds no residue: the
\* supervisor is stopped, every session is destroyed, the transport is
\* stopped and no adapter is left listening on stdin, isStarted is false,
\* getStatus reports disconnected / stopped / no sessions, the caught error
\* is handed to the caller, and a later start() is not rejected as already
\* started.
C32_FailedStartLeavesNoResidue ==
    /\ [](NoResidueButTransport /\ (StartRejected => stdinListeners = {}))
    /\ [][(ServerStartCall /\ StartRejected) =>
              serverResult'.start # "AlreadyStarted"]_vars
====
